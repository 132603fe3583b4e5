---------------------------- MODULE TopologyProofs ----------------------------
(***************************************************************************)
(* Which graphs the generators end with, for declarations of any size and  *)
(* whatever is drawn: a graph that the model or the declaration promises   *)
(* to be connected is, every node of a ring, chain or growth model keeps   *)
(* its links, the edges number what the declaration asks for, and the fill *)
(* of a DRS serves its rings in turn.                                      *)
(*                                                                         *)
(* The arguments by induction over nodes and positions are arguments about *)
(* the least counterexample (LeastNatural).                                *)
(***************************************************************************)
EXTENDS Topology, FiniteSetTheorems, WellFoundedInduction, TLAPS

(* A nonempty set of numbers has a least member.                           *)
LEMMA LeastNatural ==
  ASSUME NEW T, T \subseteq Nat, T # {}
  PROVE  \E x \in T : \A y \in T : x <= y
<1> DEFINE R == OpToRel(<, Nat)
<1>1. IsWellFoundedOn(R, Nat)
  BY NatLessThanWellFounded
<1>2. \A x, y \in Nat : <<y, x>> \in R <=> y < x
  BY DEF OpToRel
<1> HIDE DEF R
<1>3. PICK x \in T : \A y \in T : ~ (<<y, x>> \in R)
  BY <1>1, WFMin
<1>4. ASSUME NEW y \in T PROVE x <= y
  <2>1. x \in Nat /\ y \in Nat
    OBVIOUS
  <2>2. ~ (<<y, x>> \in R)
    BY <1>3
  <2>3. ~ (y < x)
    BY <2>1, <2>2, <1>2
  <2> QED BY <2>1, <2>3
<1> QED BY <1>4

-----------------------------------------------------------------------------
(* The edges E join the nodes A: no part of A can be left by them.         *)
Sealed(S, A, E) == \A u \in S, v \in A : {u, v} \in E => v \in S
Joined(A, E) == \A S \in SUBSET A : Sealed(S, A, E) => S = {} \/ S = A

(* More edges join what some of them join.                                 *)
LEMMA JoinedGrows ==
  ASSUME NEW A, NEW E, NEW F, Joined(A, E), E \subseteq F
  PROVE  Joined(A, F)
BY DEF Joined, Sealed

(* A further node is joined by its edges.                                  *)
LEMMA JoinedPlus ==
  ASSUME NEW A, NEW E, NEW F, Joined(A, E), E \subseteq F,
         NEW x, NEW t \in A, {x, t} \in F
  PROVE  Joined(A \cup {x}, F)
<1> SUFFICES ASSUME NEW S \in SUBSET (A \cup {x}), Sealed(S, A \cup {x}, F)
             PROVE  S = {} \/ S = A \cup {x}
  BY DEF Joined
<1>1. Sealed(S \cap A, A, E)
  BY DEF Sealed
<1>2. S \cap A = {} \/ S \cap A = A
  BY <1>1 DEF Joined
<1>3. x \in S <=> t \in S
  <2>1. {t, x} = {x, t}
    OBVIOUS
  <2> QED BY <2>1 DEF Sealed
<1> QED BY <1>2, <1>3

(* Two parts are joined by an edge between them.                           *)
LEMMA JoinedUnion ==
  ASSUME NEW A, NEW B, NEW E, Joined(A, E), Joined(B, E),
         NEW u \in A, NEW v \in B, {u, v} \in E
  PROVE  Joined(A \cup B, E)
<1> SUFFICES ASSUME NEW S \in SUBSET (A \cup B), Sealed(S, A \cup B, E)
             PROVE  S = {} \/ S = A \cup B
  BY DEF Joined
<1>1. Sealed(S \cap A, A, E) /\ Sealed(S \cap B, B, E)
  BY DEF Sealed
<1>2. S \cap A = {} \/ S \cap A = A
  BY <1>1 DEF Joined
<1>3. S \cap B = {} \/ S \cap B = B
  BY <1>1 DEF Joined
<1>4. u \in S <=> v \in S
  <2>1. {v, u} = {u, v}
    OBVIOUS
  <2> QED BY <2>1 DEF Sealed
<1> QED BY <1>2, <1>3, <1>4

(* What is joined is connected, also when edges of a node with itself are  *)
(* left out.                                                               *)
LEMMA JoinedIsConnected ==
  ASSUME NEW A, NEW E, NEW F, Joined(A, E),
         \A u, v \in A : u # v /\ {u, v} \in E => {u, v} \in F
  PROVE  \A S \in (SUBSET A) \ {{}, A} : ~Closed(S, F)
<1> SUFFICES ASSUME NEW S \in SUBSET A, Closed(S, F) PROVE S = {} \/ S = A
  OBVIOUS
<1>1. ASSUME NEW u \in S, NEW v \in A, {u, v} \in E PROVE v \in S
  <2>1. CASE u = v
    BY <2>1
  <2>2. CASE u # v
    <3>1. {u, v} \in F
      BY <1>1, <2>2
    <3>2. {u, v} \cap S # {}
      OBVIOUS
    <3> QED BY <3>1, <3>2 DEF Closed
  <2> QED BY <2>1, <2>2
<1> QED BY <1>1 DEF Joined, Sealed

(* Nodes in index order, each joined to one before it.                     *)
LEMMA JoinedByIndex ==
  ASSUME NEW n \in Nat, NEW E,
         \A j \in 1..(n - 1) : \E i \in 0..(j - 1) : {i, j} \in E
  PROVE  Joined(0..(n - 1), E)
<1> DEFINE A == 0..(n - 1)
<1> SUFFICES ASSUME NEW S \in SUBSET A, Sealed(S, A, E) PROVE S = {} \/ S = A
  BY DEF Joined
<1>1. ASSUME NEW j \in A, j # 0
      PROVE  \E i \in 0..(j - 1) : i \in A /\ (i \in S <=> j \in S)
  <2>1. PICK i \in 0..(j - 1) : {i, j} \in E
    <3>1. j \in 1..(n - 1)
      BY <1>1
    <3> QED BY <3>1
  <2>2. i \in A /\ {j, i} = {i, j}
    OBVIOUS
  <2> QED BY <2>1, <2>2 DEF Sealed
<1>2. CASE 0 \in S
  <2> SUFFICES ASSUME A \ S # {} PROVE FALSE
    OBVIOUS
  <2>1. A \ S \subseteq Nat
    OBVIOUS
  <2>2. PICK j \in A \ S : \A y \in A \ S : j <= y
    BY <2>1, LeastNatural
  <2>3. PICK i \in 0..(j - 1) : i \in A /\ (i \in S <=> j \in S)
    BY <1>1, <1>2, <2>2
  <2>4. j <= i
    BY <2>2, <2>3
  <2> QED BY <2>3, <2>4
<1>3. CASE 0 \notin S
  <2> SUFFICES ASSUME S # {} PROVE FALSE
    OBVIOUS
  <2>1. S \subseteq Nat
    OBVIOUS
  <2>2. PICK j \in S : \A y \in S : j <= y
    BY <2>1, LeastNatural
  <2>3. PICK i \in 0..(j - 1) : i \in A /\ (i \in S <=> j \in S)
    BY <1>1, <1>3, <2>2
  <2>4. j <= i
    BY <2>2, <2>3
  <2> QED BY <2>3, <2>4
<1> QED BY <1>2, <1>3

(* Places in a row, each in the part exactly when the next one is.         *)
LEMMA Line ==
  ASSUME NEW k \in Nat, NEW I \in SUBSET (1..k),
         \A i \in 1..(k - 1) : i \in I <=> i + 1 \in I
  PROVE  I = {} \/ I = 1..k
<1>1. ASSUME NEW j \in 1..k, j # 1 PROVE j - 1 \in 1..k /\ (j - 1 \in I <=> j \in I)
  <2>1. j - 1 \in 1..(k - 1) /\ (j - 1) + 1 = j
    BY <1>1
  <2> QED BY <2>1
<1>2. CASE 1 \in I
  <2> SUFFICES ASSUME (1..k) \ I # {} PROVE FALSE
    OBVIOUS
  <2>1. PICK j \in (1..k) \ I : \A y \in (1..k) \ I : j <= y
    <3>1. (1..k) \ I \subseteq Nat
      OBVIOUS
    <3> QED BY <3>1, LeastNatural
  <2>2. j - 1 \in (1..k) \ I
    BY <1>1, <1>2
  <2>3. j <= j - 1
    BY <2>1, <2>2
  <2> QED BY <2>3
<1>3. CASE 1 \notin I
  <2> SUFFICES ASSUME I # {} PROVE FALSE
    OBVIOUS
  <2>1. PICK j \in I : \A y \in I : j <= y
    <3>1. I \subseteq Nat
      OBVIOUS
    <3> QED BY <3>1, LeastNatural
  <2>2. j - 1 \in I
    BY <1>1, <1>3
  <2>3. j <= j - 1
    BY <2>1, <2>2
  <2> QED BY <2>3
<1> QED BY <1>2, <1>3

(* The stations of a chain.                                                *)
LEMMA ChainJoined ==
  ASSUME NEW k \in Nat, NEW f, DOMAIN f = 1..k, NEW E,
         \A i \in 1..(k - 1) : {f[i], f[i + 1]} \in E
  PROVE  Joined(ToSet(f), E)
<1> SUFFICES ASSUME NEW S \in SUBSET ToSet(f), Sealed(S, ToSet(f), E)
             PROVE  S = {} \/ S = ToSet(f)
  BY DEF Joined
<1> DEFINE I == {i \in 1..k : f[i] \in S}
<1>1. ASSUME NEW i \in 1..(k - 1) PROVE i \in I <=> i + 1 \in I
  <2>1. i \in 1..k /\ i + 1 \in 1..k
    OBVIOUS
  <2>2. f[i] \in ToSet(f) /\ f[i + 1] \in ToSet(f)
    BY <2>1 DEF ToSet
  <2>3. {f[i], f[i + 1]} \in E /\ {f[i + 1], f[i]} \in E
    <3>1. {f[i + 1], f[i]} = {f[i], f[i + 1]}
      OBVIOUS
    <3> QED BY <3>1
  <2>4. f[i] \in S <=> f[i + 1] \in S
    BY <2>2, <2>3 DEF Sealed
  <2> QED BY <2>1, <2>4
<1>2. I = {} \/ I = 1..k
  <2>1. I \in SUBSET (1..k)
    OBVIOUS
  <2> HIDE DEF I
  <2> QED BY <1>1, <2>1, Line
<1> QED BY <1>2 DEF ToSet

-----------------------------------------------------------------------------
(* The regular graphs.                                                     *)
LEMMA PathJoined ==
  ASSUME NEW n \in Nat
  PROVE  Joined(0..(n - 1), PathEdges(n))
<1>1. ASSUME NEW j \in 1..(n - 1) PROVE \E i \in 0..(j - 1) : {i, j} \in PathEdges(n)
  <2>1. j - 1 \in 0..(n - 2) /\ j - 1 \in 0..(j - 1) /\ (j - 1) + 1 = j
    OBVIOUS
  <2>2. {j - 1, j} \in PathEdges(n)
    BY <2>1 DEF PathEdges
  <2> QED BY <2>1, <2>2
<1> QED BY <1>1, JoinedByIndex

LEMMA RingJoined ==
  ASSUME NEW n \in Nat
  PROVE  Joined(0..(n - 1), RingEdges(n))
<1>1. ASSUME NEW i \in 0..(n - 2) PROVE {i, i + 1} \in RingEdges(n)
  <2>1. i \in 0..(n - 1) /\ i + 1 \in 0..(n - 1) /\ n > 0
    OBVIOUS
  <2>2. (i + 1) % n = i + 1
    BY <2>1
  <2> QED BY <2>1, <2>2 DEF RingEdges
<1>2. PathEdges(n) \subseteq RingEdges(n)
  BY <1>1 DEF PathEdges
<1> QED BY <1>2, PathJoined, JoinedGrows

LEMMA CompleteJoined ==
  ASSUME NEW d, d.n \in Nat
  PROVE  Joined(NodesOf(d), PairsOf(d))
<1>1. ASSUME NEW j \in 1..(d.n - 1) PROVE \E i \in 0..(j - 1) : {i, j} \in PairsOf(d)
  <2>1. 0 \in 0..(j - 1) /\ 0 \in NodesOf(d) /\ j \in NodesOf(d) /\ 0 < j
    BY DEF NodesOf
  <2>2. <<0, j>> \in {y \in NodesOf(d) \X NodesOf(d) : y[1] < y[2]}
    BY <2>1
  <2>3. {0, j} \in PairsOf(d)
    BY <2>2 DEF PairsOf
  <2> QED BY <2>1, <2>3
<1> QED BY <1>1, JoinedByIndex DEF NodesOf

(* Columns never need to divide the nodes for this.                        *)
LEMMA GridJoined ==
  ASSUME NEW n \in Nat, NEW c \in Nat, c > 0
  PROVE  Joined(0..(n - 1), GridEdges(n, c))
<1>1. ASSUME NEW j \in 1..(n - 1) PROVE \E i \in 0..(j - 1) : {i, j} \in GridEdges(n, c)
  <2>1. CASE j >= c
    <3>1. j - c \in 0..(n - 1 - c) /\ j - c \in 0..(j - 1) /\ (j - c) + c = j
      BY <2>1
    <3>2. {j - c, (j - c) + c} \in GridEdges(n, c)
      BY <3>1 DEF GridEdges
    <3> QED BY <3>1, <3>2
  <2>2. CASE j < c
    <3>1. j - 1 \in 0..(n - 2) /\ j - 1 \in 0..(j - 1) /\ (j - 1) + 1 = j
          /\ j - 1 < c - 1
      BY <2>2
    <3>2. (j - 1) % c = j - 1
      BY <3>1
    <3>3. {j - 1, (j - 1) + 1} \in GridEdges(n, c)
      BY <3>1, <3>2 DEF GridEdges
    <3> QED BY <3>1, <3>3
  <2> QED BY <2>1, <2>2
<1> QED BY <1>1, JoinedByIndex

(* A grid that is accepted has columns.                                    *)
LEMMA GridHasColumns ==
  ASSUME NEW d, d.n \in Nat, d.n > 0, d.rows \in Int, d.columns \in Int, ~GridRejected(d)
  PROVE  Columns(d) \in Nat /\ Columns(d) > 0
<1>1. CASE d.columns > 0
  BY <1>1 DEF Columns
<1>2. CASE d.columns <= 0 /\ d.rows > 0
  <2>1. Columns(d) = d.n \div d.rows /\ Rows(d) = d.rows
    BY <1>2 DEF Columns, Rows
  <2>2. d.n \div d.rows \in Nat
    BY <1>2
  <2>3. Columns(d) # 0
    BY <2>1, <1>2 DEF GridRejected
  <2> QED BY <2>1, <2>2, <2>3
<1>3. CASE d.columns <= 0 /\ d.rows <= 0
  <2>1. Columns(d) = 0 /\ Rows(d) = 0
    BY <1>3 DEF Columns, Rows
  <2> QED BY <2>1 DEF GridRejected
<1> QED BY <1>1, <1>2, <1>3

(* Two members are a pair.                                                 *)
LEMMA PairHasTwo ==
  ASSUME NEW u, NEW v, u # v
  PROVE  Cardinality({u, v}) = 2
<1>1. IsFiniteSet({u}) /\ Cardinality({u}) = 1
  BY FS_Singleton
<1>2. Cardinality({u} \cup {v}) = 2
  BY <1>1, FS_AddElement
<1>3. {u} \cup {v} = {u, v}
  OBVIOUS
<1> QED BY <1>2, <1>3

(* The initial clique joins the seeds that are nodes.                      *)
LEMMA CliqueJoined ==
  ASSUME NEW A, NEW T, A \subseteq T
  PROVE  Joined(A, Clique(T))
<1>1. ASSUME NEW u \in A, NEW v \in A, u # v PROVE {u, v} \in Clique(T)
  <2>1. Cardinality({u, v}) = 2
    BY <1>1, PairHasTwo
  <2>2. {u, v} \in SUBSET T
    OBVIOUS
  <2> QED BY <2>1, <2>2 DEF Clique
<1> SUFFICES ASSUME NEW S \in SUBSET A, Sealed(S, A, Clique(T)) PROVE S = {} \/ S = A
  BY DEF Joined
<1> SUFFICES ASSUME NEW u \in S, NEW v \in A \ S PROVE FALSE
  OBVIOUS
<1>2. {u, v} \in Clique(T)
  BY <1>1
<1> QED BY <1>2 DEF Sealed

-----------------------------------------------------------------------------
(* A set of numbers below n has a greatest member, and can be put in order.*)
LEMMA GreatestBelow ==
  ASSUME NEW n \in Nat, NEW S \in SUBSET (0..(n - 1)), S # {}
  PROVE  \E x \in S : \A y \in S : y <= x
<1> DEFINE T == {z \in 0..(n - 1) : (n - 1) - z \in S}
<1>1. T \subseteq Nat
  OBVIOUS
<1>2. \A x \in S : (n - 1) - x \in T
  <2> SUFFICES ASSUME NEW x \in S PROVE (n - 1) - x \in T
    OBVIOUS
  <2>1. x \in 0..(n - 1)
    OBVIOUS
  <2>2. (n - 1) - x \in 0..(n - 1) /\ (n - 1) - ((n - 1) - x) = x
    BY <2>1
  <2> QED BY <2>2
<1>3. T # {}
  BY <1>2
<1>4. \A z \in T : z \in 0..(n - 1) /\ (n - 1) - z \in S
  OBVIOUS
<1> HIDE DEF T
<1>5. PICK z \in T : \A y \in T : z <= y
  BY <1>1, <1>3, LeastNatural
<1>6. (n - 1) - z \in S
  BY <1>4
<1>7. ASSUME NEW y \in S PROVE y <= (n - 1) - z
  <2>1. z <= (n - 1) - y
    BY <1>2, <1>5
  <2>2. y \in Int /\ z \in Int
    BY <1>4
  <2> QED BY <2>1, <2>2
<1> QED BY <1>6, <1>7

LEMMA CanBeSorted ==
  ASSUME NEW n \in Nat, NEW S \in SUBSET (0..(n - 1))
  PROVE  \E s \in [1..Cardinality(S) -> S] :
           \A i, j \in 1..Cardinality(S) : i < j => s[i] < s[j]
<1> DEFINE A == 0..(n - 1)
           CanBe(T) == \E s \in [1..Cardinality(T) -> T] :
                         \A i, j \in 1..Cardinality(T) : i < j => s[i] < s[j]
           Bad == {Cardinality(T) : T \in {U \in SUBSET A : ~CanBe(U)}}
<1>1. \A T \in SUBSET A : IsFiniteSet(T) /\ Cardinality(T) \in Nat
  <2>1. IsFiniteSet(A)
    <3>1. 0 \in Int /\ n - 1 \in Int
      OBVIOUS
    <3> QED BY <3>1, FS_Interval
  <2> QED BY <2>1, FS_Subset, FS_CardinalityType
<1>2. Bad \subseteq Nat
  BY <1>1
<1> SUFFICES ASSUME Bad # {} PROVE FALSE
  OBVIOUS
<1>3. PICK k \in Bad : \A y \in Bad : k <= y
  BY <1>2, LeastNatural
<1>4. PICK T \in SUBSET A : ~CanBe(T) /\ k = Cardinality(T)
  OBVIOUS
<1>5. T # {}
  <2> SUFFICES ASSUME T = {} PROVE CanBe(T)
    BY <1>4
  <2>1. Cardinality(T) = 0 /\ 1..0 = {}
    BY FS_EmptySet
  <2>2. << >> \in [1..Cardinality(T) -> T]
    BY <2>1
  <2> QED BY <2>1, <2>2
<1>6. PICK x \in T : \A y \in T : y <= x
  BY <1>5, GreatestBelow
<1>7. PICK r \in Nat : r = Cardinality(T \ {x}) /\ k = r + 1
  <2>1. IsFiniteSet(T) /\ IsFiniteSet(T \ {x}) /\ Cardinality(T \ {x}) = Cardinality(T) - 1
    BY <1>1, FS_RemoveElement
  <2>2. Cardinality(T \ {x}) \in Nat
    BY <2>1, FS_CardinalityType
  <2>3. Cardinality(T) \in Nat
    BY <1>1
  <2> QED BY <1>4, <2>1, <2>2, <2>3
<1>8. CanBe(T \ {x})
  <2> SUFFICES ASSUME ~CanBe(T \ {x}) PROVE FALSE
    OBVIOUS
  <2>1. T \ {x} \in SUBSET A
    OBVIOUS
  <2>2. r \in Bad
    <3> HIDE DEF CanBe
    <3>1. T \ {x} \in {U \in SUBSET A : ~CanBe(U)}
      BY <2>1
    <3> QED BY <1>7, <3>1
  <2> HIDE DEF Bad
  <2>3. k <= r
    BY <1>3, <2>2
  <2> QED BY <1>7, <2>3
<1>9. PICK s \in [1..r -> T \ {x}] :
          \A i, j \in 1..r : i < j => s[i] < s[j]
  BY <1>7, <1>8
<1> HIDE DEF Bad, CanBe
<1> DEFINE g == [i \in 1..k |-> IF i <= r THEN s[i] ELSE x]
<1>10. g \in [1..Cardinality(T) -> T]
  <2> SUFFICES ASSUME NEW i \in 1..k PROVE (IF i <= r THEN s[i] ELSE x) \in T
    BY <1>4
  <2>1. i <= r => i \in 1..r
    BY <1>7
  <2> QED BY <1>6, <1>9, <2>1
<1>11. ASSUME NEW i \in 1..k, NEW j \in 1..k, i < j PROVE g[i] < g[j]
  <2>1. i \in 1..r /\ g[i] = s[i] /\ s[i] \in T \ {x}
    <3>1. i \in 1..r
      BY <1>7, <1>11
    <3>2. g[i] = s[i]
      BY <3>1
    <3>3. s[i] \in T \ {x}
      BY <1>9, <3>1
    <3> QED BY <3>1, <3>2, <3>3
  <2>2. CASE j <= r
    <3>1. j \in 1..r /\ g[j] = s[j]
      BY <2>2
    <3> QED BY <1>9, <1>11, <2>1, <3>1
  <2>3. CASE j > r
    <3>1. g[j] = x
      BY <2>3, <1>7
    <3>2. s[i] \in T /\ s[i] # x
      BY <2>1
    <3> HIDE DEF g
    <3>3. s[i] <= x
      BY <3>2, <1>6
    <3>4. s[i] \in Int /\ x \in Int
      <4>1. T \subseteq Int
        OBVIOUS
      <4> HIDE DEF A
      <4> QED BY <3>2, <4>1
    <3> QED BY <2>1, <3>1, <3>2, <3>3, <3>4
  <2> QED BY <2>2, <2>3, <1>7
<1> HIDE DEF g
<1>12. CanBe(T)
  BY <1>4, <1>10, <1>11 DEF CanBe
<1> QED BY <1>4, <1>12

(* Sorted gives the members of a set of nodes, each once.                  *)
LEMMA SortedIs ==
  ASSUME NEW n \in Nat, NEW S \in SUBSET (0..(n - 1))
  PROVE  /\ Cardinality(S) \in Nat
         /\ Sorted(S) \in [1..Cardinality(S) -> S] /\ ToSet(Sorted(S)) = S
         /\ \A i, j \in 1..Cardinality(S) : i # j => Sorted(S)[i] # Sorted(S)[j]
<1>1. IsFiniteSet(S) /\ Cardinality(S) \in Nat
  <2>1. IsFiniteSet(0..(n - 1))
    <3>1. 0 \in Int /\ n - 1 \in Int
      OBVIOUS
    <3> QED BY <3>1, FS_Interval
  <2> QED BY <2>1, FS_Subset, FS_CardinalityType
<1> DEFINE k == Cardinality(S)
           F == [1..k -> S]
           Ordered(s) == \A i, j \in DOMAIN s : i < j => s[i] < s[j]
<1>2. \E s \in F : Ordered(s)
  <2>1. PICK s \in F : \A i, j \in 1..k : i < j => s[i] < s[j]
    BY CanBeSorted
  <2>2. DOMAIN s = 1..k
    OBVIOUS
  <2> QED BY <2>1, <2>2
<1>3. Sorted(S) \in F /\ Ordered(Sorted(S))
  BY <1>2 DEF Sorted
<1> DEFINE s == Sorted(S)
<1> HIDE DEF s
<1>4. s \in F /\ Ordered(s) /\ DOMAIN s = 1..k
  BY <1>3 DEF s
<1>5. \A i, j \in 1..k : i # j => s[i] # s[j]
  <2> SUFFICES ASSUME NEW i \in 1..k, NEW j \in 1..k, i # j PROVE s[i] # s[j]
    OBVIOUS
  <2>1. s[i] \in S /\ s[j] \in S
    BY <1>4
  <2>2. s[i] \in Int /\ s[j] \in Int
    <3>1. S \subseteq Int
      OBVIOUS
    <3> QED BY <2>1, <3>1
  <2>3. i < j \/ j < i
    BY <1>1
  <2> QED BY <1>4, <2>2, <2>3
<1>6. s \in Injection(1..k, S)
  BY <1>4, <1>5 DEF Injection, IsInjective
<1>7. Cardinality(1..k) = k
  <2>1. 1 \in Int /\ k \in Int
    BY <1>1
  <2> QED BY <1>1, <2>1, FS_Interval
<1>8. s \in Surjection(1..k, S)
  BY <1>1, <1>6, <1>7, FS_Injection
<1>9. ToSet(s) = S
  BY <1>4, <1>8 DEF Surjection, ToSet
<1> QED BY <1>1, <1>4, <1>5, <1>9 DEF s

-----------------------------------------------------------------------------
(* The parts of a graph, and their repair.  A part is a smallest set that  *)
(* no edge leaves, and there is one in every such set.                     *)
LEMMA NodesAreFinite ==
  ASSUME domain.n \in Nat
  PROVE  \A S \in SUBSET Nodes : IsFiniteSet(S) /\ Cardinality(S) \in Nat
<1>1. IsFiniteSet(Nodes)
  <2>1. 0 \in Int /\ domain.n - 1 \in Int
    OBVIOUS
  <2> QED BY <2>1, FS_Interval DEF Nodes, NodesOf
<1> QED BY <1>1, FS_Subset, FS_CardinalityType

LEMMA PartBelow ==
  ASSUME domain.n \in Nat, NEW E, NEW S \in SUBSET Nodes, S # {}, Closed(S, E)
  PROVE  \E P \in Components(E) : P \subseteq S
<1> DEFINE In == {T \in SUBSET S : T # {} /\ Closed(T, E)}
           Sizes == {Cardinality(T) : T \in In}
<1>1. \A T \in SUBSET S : IsFiniteSet(T) /\ Cardinality(T) \in Nat
  BY NodesAreFinite
<1>2. Sizes \subseteq Nat /\ Sizes # {}
  <2>1. S \in In
    OBVIOUS
  <2> QED BY <1>1, <2>1
<1>3. PICK k \in Sizes : \A y \in Sizes : k <= y
  BY <1>2, LeastNatural
<1>4. PICK P \in In : k = Cardinality(P)
  OBVIOUS
<1>5. ASSUME NEW T \in (SUBSET Nodes) \ {{}}, Closed(T, E), T \subseteq P PROVE T = P
  <2>1. T \in In
    BY <1>4, <1>5
  <2>2. Cardinality(P) <= Cardinality(T)
    BY <1>3, <1>4, <2>1
  <2>3. IsFiniteSet(P) /\ Cardinality(P) \in Nat /\ Cardinality(T) \in Nat
    BY <1>1, <1>4, <2>1
  <2>4. Cardinality(T) <= Cardinality(P)
    BY <1>5, <2>3, FS_Subset
  <2>5. Cardinality(T) = Cardinality(P)
    BY <2>2, <2>3, <2>4
  <2> QED BY <1>5, <2>3, <2>5, FS_Subset
<1>6. P \in Components(E) /\ P \subseteq S
  BY <1>4, <1>5 DEF Components
<1> QED BY <1>6

(* A part is inside or outside of a set that no edge leaves.               *)
LEMMA PartWithin ==
  ASSUME NEW E, NEW P \in Components(E), NEW S \in SUBSET Nodes, Closed(S, E), P \cap S # {}
  PROVE  P \subseteq S
<1>1. P \in SUBSET Nodes /\ Closed(P, E)
  BY DEF Components
<1>2. Closed(P \cap S, E)
  BY <1>1 DEF Closed
<1>3. P \cap S = P
  BY <1>1, <1>2 DEF Components
<1> QED BY <1>3

LEMMA RestClosed ==
  ASSUME NEW E, E \subseteq SUBSET Nodes, NEW S \in SUBSET Nodes, Closed(S, E)
  PROVE  Closed(Nodes \ S, E)
BY DEF Closed

(* A set that no edge leaves has a part inside and a part outside.         *)
LEMMA PartsApart ==
  ASSUME domain.n \in Nat, NEW E, E \subseteq SUBSET Nodes,
         NEW S \in (SUBSET Nodes) \ {{}, Nodes}, Closed(S, E)
  PROVE  /\ \E P \in Components(E) : P \subseteq S
         /\ \E Q \in Components(E) : Q \subseteq Nodes \ S
<1>1. \E P \in Components(E) : P \subseteq S
  BY PartBelow
<1>2. Nodes \ S \in SUBSET Nodes /\ Nodes \ S # {} /\ Closed(Nodes \ S, E)
  BY RestClosed
<1>3. \E Q \in Components(E) : Q \subseteq Nodes \ S
  BY <1>2, PartBelow
<1> QED BY <1>1, <1>3

LEMMA PartsAreCounted ==
  ASSUME domain.n \in Nat, NEW E
  PROVE  IsFiniteSet(Components(E)) /\ Cardinality(Components(E)) \in Nat
<1>1. IsFiniteSet(Nodes)
  BY NodesAreFinite
<1>2. IsFiniteSet(SUBSET Nodes)
  BY <1>1, FS_SUBSET
<1>3. Components(E) \in SUBSET (SUBSET Nodes)
  BY DEF Components
<1> QED BY <1>2, <1>3, FS_Subset, FS_CardinalityType

(* One part is a connected graph.                                          *)
LEMMA SinglePart ==
  ASSUME domain.n \in Nat, NEW E, E \subseteq SUBSET Nodes,
         ~ (Cardinality(Components(E)) > 1)
  PROVE  \A S \in (SUBSET Nodes) \ {{}, Nodes} : ~Closed(S, E)
<1> SUFFICES ASSUME NEW S \in (SUBSET Nodes) \ {{}, Nodes}, Closed(S, E) PROVE FALSE
  OBVIOUS
<1>1. PICK P \in Components(E) : P \subseteq S
  BY PartsApart
<1>2. PICK Q \in Components(E) : Q \subseteq Nodes \ S
  BY PartsApart
<1>3. P # {} /\ P # Q
  BY <1>1, <1>2 DEF Components
<1>4. Cardinality({P, Q}) = 2
  BY <1>3, PairHasTwo
<1>5. Cardinality({P, Q}) <= Cardinality(Components(E))
  <2>1. {P, Q} \in SUBSET Components(E)
    OBVIOUS
  <2> QED BY <2>1, PartsAreCounted, FS_Subset
<1> QED BY <1>4, <1>5, PartsAreCounted

(* connectGeneratedComponents does what it says.                           *)
LEMMA RepairConnects ==
  ASSUME domain.n \in Nat, NEW E, E \subseteq SUBSET Nodes,
         NEW c \in Chains(Components(E))
  PROVE  \A S \in (SUBSET Nodes) \ {{}, Nodes} : ~Closed(S, E \cup Links(c))
<1> SUFFICES ASSUME NEW S \in (SUBSET Nodes) \ {{}, Nodes}, Closed(S, E \cup Links(c))
             PROVE  FALSE
  OBVIOUS
<1> DEFINE k == Cardinality(Components(E))
<1>1. k \in Nat
  BY PartsAreCounted
<1>2. /\ c \in [1..k -> Nodes]
      /\ \A P \in Components(E) : \E i \in 1..k : c[i] \in P
  BY DEF Chains
<1> HIDE DEF k
<1>3. Len(c) = k /\ DOMAIN c = 1..k
  BY <1>1, <1>2
<1>4. Closed(S, E) /\ Closed(S, Links(c))
  BY DEF Closed
<1>5. Joined(ToSet(c), Links(c))
  <2>1. \A i \in 1..(k - 1) : {c[i], c[i + 1]} \in Links(c)
    BY <1>3 DEF Links
  <2> QED BY <1>1, <1>3, <2>1, ChainJoined
<1>6. Sealed(S \cap ToSet(c), ToSet(c), Links(c))
  BY <1>4 DEF Sealed, Closed
<1>7. S \cap ToSet(c) = {} \/ S \cap ToSet(c) = ToSet(c)
  BY <1>5, <1>6 DEF Joined
<1>8. PICK P \in Components(E) : P \subseteq S
  BY <1>4, PartsApart
<1>9. PICK Q \in Components(E) : Q \subseteq Nodes \ S
  BY <1>4, PartsApart
<1>10. PICK i \in 1..k : c[i] \in P
  BY <1>2
<1>11. PICK j \in 1..k : c[j] \in Q
  BY <1>2
<1>12. c[i] \in S /\ c[j] \notin S /\ c[i] \in ToSet(c) /\ c[j] \in ToSet(c)
  BY <1>3, <1>8, <1>9, <1>10, <1>11 DEF ToSet
<1> QED BY <1>7, <1>12

(* normalizeGeneratedEdges takes away no edge that matters.                *)
MadeOfPairs(E, N) == \A e \in E : \E u, v \in N : e = {u, v}

LEMMA NormalizedIsClosed ==
  ASSUME NEW E, NEW N, MadeOfPairs(E, N), NEW S \in SUBSET N,
         Closed(S, {e \in E : Cardinality(e) = 2})
  PROVE  Closed(S, E)
<1> SUFFICES ASSUME NEW e \in E, e \cap S # {} PROVE e \subseteq S
  BY DEF Closed
<1>1. PICK u \in N, v \in N : e = {u, v}
  BY DEF MadeOfPairs
<1>2. CASE u = v
  BY <1>1, <1>2
<1>3. CASE u # v
  <2>1. Cardinality(e) = 2
    BY <1>1, <1>3, PairHasTwo
  <2> QED BY <2>1 DEF Closed
<1> QED BY <1>2, <1>3

-----------------------------------------------------------------------------
(* The cycle of a ring.                                                    *)
LEMMA BackboneJoined ==
  ASSUME NEW k \in Nat, NEW ring, DOMAIN ring = 1..k, Len(ring) = k
  PROVE  Joined(ToSet(ring), Backbone(ring))
<1>1. ASSUME NEW i \in 1..(k - 1) PROVE {ring[i], ring[i + 1]} \in Backbone(ring)
  <2>1. i \in 1..k /\ k > 0 /\ (i + 1) - 1 = i
    OBVIOUS
  <2>2. 1 + (((i + 1) - 1) % k) = i + 1
    BY <2>1
  <2>3. Chord(ring, 1, i) = {ring[i], ring[i + 1]}
    BY <2>2 DEF Chord
  <2>4. Chord(ring, 1, i) \in Backbone(ring)
    BY <2>1 DEF Backbone
  <2> QED BY <2>3, <2>4
<1> QED BY <1>1, ChainJoined

(* The turn that comes next is one of those to come.                       *)
LEMMA FirstIsMember ==
  ASSUME NEW T, T \subseteq Nat, T # {}
  PROVE  FirstOf(T) \in T
<1>1. \E x \in T : \A y \in T : x <= y
  BY LeastNatural
<1> QED BY <1>1 DEF FirstOf

LEMMA FirstPairIsMember ==
  ASSUME NEW T, T \subseteq Nat \X Nat, T # {}
  PROVE  FirstPair(T) \in T
<1> DEFINE Firsts == {x[1] : x \in T}
<1>1. Firsts \subseteq Nat /\ Firsts # {}
  OBVIOUS
<1>2. PICK a \in Firsts : \A y \in Firsts : a <= y
  BY <1>1, LeastNatural
<1> DEFINE Seconds == {x[2] : x \in {y \in T : y[1] = a}}
<1>3. Seconds \subseteq Nat /\ Seconds # {}
  <2>1. PICK x \in T : x[1] = a
    OBVIOUS
  <2> QED BY <2>1
<1>4. PICK b \in Seconds : \A y \in Seconds : b <= y
  BY <1>3, LeastNatural
<1>5. PICK x \in T : x[1] = a /\ x[2] = b
  OBVIOUS
<1>6. ASSUME NEW y \in T PROVE x[1] < y[1] \/ (x[1] = y[1] /\ x[2] <= y[2])
  <2>1. x[1] \in Nat /\ y[1] \in Nat /\ x[2] \in Nat /\ y[2] \in Nat
    OBVIOUS
  <2>2. x[1] <= y[1]
    BY <1>2, <1>5
  <2>3. x[1] = y[1] => x[2] <= y[2]
    BY <1>4, <1>5
  <2> QED BY <2>1, <2>2, <2>3
<1>7. \E z \in T : \A y \in T : z[1] < y[1] \/ (z[1] = y[1] /\ z[2] <= y[2])
  BY <1>6
<1> QED BY <1>7 DEF FirstPair

-----------------------------------------------------------------------------
(* The invariant.  Each phase has its generator; the models that promise   *)
(* nothing by construction have pairs of nodes for edges; Barabasi-Albert  *)
(* joins the nodes whose turn has been; a DRS joins each ring from the     *)
(* start, and the rings when the first outer node has its access links.    *)
PhaseFits(p, model) ==
  /\ p \in {"attach", "clique"} => model \in {"ba", "ba-opportunistic"}
  /\ p \in {"access", "shortcuts", "fill"} => model = "drs"
  /\ p = "rewire" => model = "ws"

ByConstruction(model) == model \notin {"er", "ws", "matrix"}

TwoRings(I, O, N, p, turns, E) ==
  /\ I \cup O = N /\ Joined(I, E) /\ Joined(O, E)
  /\ p = "access" => turns \subseteq O
  /\ p # "access" => O = {} \/ \E u \in I, v \in O : {u, v} \in E

GraphInv ==
  /\ domain \in Domains
  /\ phase \notin {"declared", "rejected"} => ~Rejected(domain)
  /\ PhaseFits(phase, domain.model)
  /\ phase = "declared" => edges = {}
  /\ domain.model \in {"er", "ws"} /\ phase # "done" => MadeOfPairs(edges, Nodes)
  /\ phase = "attach" => todo \subseteq Nodes /\ Joined(Nodes \ todo, edges)
  /\ phase \in {"access", "shortcuts", "fill"} =>
       TwoRings(ToSet(rings.inner), ToSet(rings.outer), Nodes, phase, todo, edges)
  /\ phase = "rewire" => todo \subseteq Nodes \X Nat
  /\ phase = "generated" /\ ByConstruction(domain.model) => Joined(Nodes, edges)
  /\ ConnectedWhenPromised

(* What the assumption says of the declaration at hand.                    *)
LEMMA Declared ==
  ASSUME domain \in Domains
  PROVE  /\ domain.n \in Nat /\ Nodes = 0..(domain.n - 1) /\ Nodes \subseteq Nat
         /\ {domain.k, domain.m, domain.rows, domain.columns} \subseteq Int
         /\ {domain.p, domain.averageDegree, domain.alpha, domain.beta} \subseteq Int
         /\ domain.ensureConnected \in BOOLEAN
         /\ domain.model = "matrix" => ~domain.ensureConnected
         /\ domain.model \in Models
<1>1. DomainType(domain)
  BY TopologyAssumption
<1> QED BY <1>1 DEF DomainType, Nodes, NodesOf

LEMMA NotRejected ==
  ASSUME domain \in Domains, ~Rejected(domain)
  PROVE  /\ domain.n > 0
         /\ domain.model \in {"ba", "ba-opportunistic"} => ~BARejected(domain)
         /\ domain.model = "drs" => ~DRSRejected(domain)
         /\ domain.model = "ws" => ~LatticeRejected(domain)
         /\ domain.model = "grid" => ~GridRejected(domain)
<1>1. domain.n \in Nat
  BY Declared
<1> QED BY <1>1 DEF Rejected

LEMMA GraphInit == Init => GraphInv
<1> SUFFICES ASSUME Init PROVE GraphInv
  OBVIOUS
<1>1. MadeOfPairs({}, Nodes)
  BY DEF MadeOfPairs
<1> QED BY <1>1 DEF Init, GraphInv, PhaseFits, ConnectedWhenPromised

(* Steps that leave the phases of the invariant alone.                     *)
LEMMA GraphQuiet ==
  ASSUME GraphInv, UNCHANGED <<domain, edges>>,
         \/ UNCHANGED <<phase, todo, rings>>
         \/ Reject \/ StartOpportunistic
         \/ phase \in {"shortcuts", "fill"}
              /\ phase' \in {"noTargets", "overBudget", "underBudget"}
  PROVE  GraphInv'
<1> Nodes' = Nodes
  BY DEF Nodes
<1>1. CASE UNCHANGED <<phase, todo, rings>>
  BY <1>1 DEF GraphInv, ConnectedWhenPromised
<1>2. CASE phase' \in {"rejected", "clique", "noTargets", "overBudget", "underBudget"}
           /\ PhaseFits(phase', domain.model) /\ (phase' # "rejected" => ~Rejected(domain))
           /\ phase # "done"
  BY <1>2 DEF GraphInv, ConnectedWhenPromised
<1>3. CASE Reject
  BY <1>2, <1>3 DEF Reject, PhaseFits
<1>4. CASE StartOpportunistic
  BY <1>2, <1>4 DEF StartOpportunistic, Accept, PhaseFits
<1>5. CASE /\ phase \in {"shortcuts", "fill"}
           /\ phase' \in {"noTargets", "overBudget", "underBudget"}
  BY <1>2, <1>5 DEF PhaseFits, GraphInv
<1> QED BY <1>1, <1>3, <1>4, <1>5

(* The generator returns: only what the model promises is left to show.    *)
LEMMA GraphReturns ==
  ASSUME GraphInv, NEW E, Return(E), UNCHANGED domain, ~Rejected(domain),
         domain.model \in {"er", "ws"} => MadeOfPairs(E, Nodes),
         ByConstruction(domain.model) => Joined(Nodes, E)
  PROVE  GraphInv'
<1> Nodes' = Nodes
  BY DEF Nodes
<1> QED BY DEF GraphInv, Return, PhaseFits, ConnectedWhenPromised

LEMMA GraphRegular ==
  GraphInv /\ (GenerateER \/ GenerateRegular \/ GenerateMatrix) => GraphInv'
<1> SUFFICES ASSUME GraphInv, GenerateER \/ GenerateRegular \/ GenerateMatrix PROVE GraphInv'
  OBVIOUS
<1>1. /\ domain.n \in Nat /\ Nodes = 0..(domain.n - 1) /\ UNCHANGED domain
      /\ domain.rows \in Int /\ domain.columns \in Int /\ ~Rejected(domain)
  BY Declared DEF GraphInv, GenerateER, GenerateRegular, GenerateMatrix, Accept
<1>2. CASE GenerateER
  <2>1. PICK E \in ERGraphs(domain) : Return(E)
    BY <1>2 DEF GenerateER
  <2>2. E \subseteq PairsOf(domain)
    BY DEF ERGraphs
  <2>3. MadeOfPairs(E, Nodes)
    BY <2>2 DEF MadeOfPairs, PairsOf, Nodes
  <2>4. domain.model = "er"
    BY <1>2 DEF GenerateER, Accept
  <2> QED BY <1>1, <2>1, <2>3, <2>4, GraphReturns DEF ByConstruction
<1>3. CASE GenerateRegular
  <2>1. CASE Accept("ring") /\ Return(RingEdges(domain.n))
    <3>1. Joined(Nodes, RingEdges(domain.n))
      BY <1>1, RingJoined
    <3> QED BY <1>1, <2>1, <3>1, GraphReturns DEF Accept
  <2>2. CASE Accept("path") /\ Return(PathEdges(domain.n))
    <3>1. Joined(Nodes, PathEdges(domain.n))
      BY <1>1, PathJoined
    <3> QED BY <1>1, <2>2, <3>1, GraphReturns DEF Accept
  <2>3. CASE Accept("complete") /\ Return(PairsOf(domain))
    <3>1. Joined(Nodes, PairsOf(domain))
      BY <1>1, CompleteJoined DEF Nodes
    <3> QED BY <1>1, <2>3, <3>1, GraphReturns DEF Accept
  <2>4. CASE Accept("grid") /\ Return(GridEdges(domain.n, Columns(domain)))
    <3>1. domain.n > 0 /\ ~GridRejected(domain)
      BY <1>1, <2>4, NotRejected DEF Accept, GraphInv
    <3>2. Columns(domain) \in Nat /\ Columns(domain) > 0
      BY <1>1, <3>1, GridHasColumns
    <3>3. Joined(Nodes, GridEdges(domain.n, Columns(domain)))
      BY <1>1, <3>2, GridJoined
    <3> QED BY <1>1, <2>4, <3>3, GraphReturns DEF Accept
  <2> QED BY <1>3, <2>1, <2>2, <2>3, <2>4 DEF GenerateRegular
<1>4. CASE GenerateMatrix
  <2>1. domain.model = "matrix" /\ Return({{x[1], x[2]} : x \in domain.matrix})
    BY <1>4 DEF GenerateMatrix, Accept
  <2> QED BY <1>1, <2>1, GraphReturns DEF ByConstruction
<1> QED BY <1>2, <1>3, <1>4

(* Barabasi-Albert: the clique, a node at a time, and the end.             *)
LEMMA CliqueStarts ==
  ASSUME GraphInv, UNCHANGED domain, domain.model \in {"ba", "ba-opportunistic"},
         phase' = "attach", ~Rejected(domain),
         NEW T, edges' = Clique(T), todo' = Nodes \ T
  PROVE  GraphInv'
<1> Nodes' = Nodes
  BY DEF Nodes
<1>1. Joined(Nodes \ (Nodes \ T), Clique(T))
  BY CliqueJoined
<1> QED BY <1>1 DEF GraphInv, PhaseFits, ConnectedWhenPromised

LEMMA GraphSeeds == GraphInv /\ (StartBA \/ PickSeed) => GraphInv'
<1> SUFFICES ASSUME GraphInv, StartBA \/ PickSeed PROVE GraphInv'
  OBVIOUS
<1>1. CASE StartBA
  BY <1>1, CliqueStarts DEF StartBA, Accept
<1>2. CASE PickSeed
  <2>1. UNCHANGED domain /\ ~Rejected(domain) /\ domain.model \in {"ba", "ba-opportunistic"}
    BY <1>2 DEF PickSeed, GraphInv, PhaseFits
  <2>2. CASE Cardinality(seeds') > domain.m
    <3>1. edges' = Clique(seeds') /\ todo' = Nodes \ seeds' /\ phase' = "attach"
      BY <1>2, <2>2 DEF PickSeed
    <3> QED BY <2>1, <3>1, CliqueStarts
  <2>3. CASE ~ (Cardinality(seeds') > domain.m)
    <3>1. UNCHANGED <<domain, edges, todo, phase>> /\ phase = "clique"
      BY <1>2, <2>3 DEF PickSeed
    <3>2. Nodes' = Nodes
      BY <3>1 DEF Nodes
    <3> QED BY <3>1, <3>2 DEF GraphInv, ConnectedWhenPromised
  <2> QED BY <2>2, <2>3
<1> QED BY <1>1, <1>2

LEMMA GraphAttach == GraphInv /\ (Attach \/ Attached) => GraphInv'
<1> SUFFICES ASSUME GraphInv, Attach \/ Attached PROVE GraphInv'
  OBVIOUS
<1> Nodes' = Nodes
  BY DEF Nodes, Attach, Attached
<1>1. /\ UNCHANGED domain /\ ~Rejected(domain) /\ phase = "attach"
      /\ domain.model \in {"ba", "ba-opportunistic"}
      /\ todo \subseteq Nodes /\ Joined(Nodes \ todo, edges)
  BY DEF Attach, Attached, GraphInv, PhaseFits
<1>2. domain.m \in Int /\ domain.m > 0 /\ Nodes \subseteq Nat
  BY <1>1, NotRejected, Declared DEF GraphInv, BARejected
<1>3. CASE Attach
  <2> DEFINE node == FirstOf(todo)
  <2>1. node \in todo
    BY <1>1, <1>2, <1>3, FirstIsMember DEF Attach
  <2> HIDE DEF node
  <2>2. PICK S \in Targets(Nodes \ todo, domain.m) :
          edges' = edges \cup {{node, target} : target \in S}
    BY <1>3 DEF Attach, node
  <2>3. S \subseteq Nodes \ todo /\ S # {}
    <3>1. S \subseteq Nodes \ todo /\ Cardinality(S) = domain.m
      BY <2>2 DEF Targets, Subsets
    <3>2. Cardinality({}) = 0
      BY FS_EmptySet
    <3> QED BY <1>2, <3>1, <3>2
  <2>4. PICK t \in S : TRUE
    BY <2>3
  <2>5. {node, t} \in edges' /\ edges \subseteq edges' /\ t \in Nodes \ todo
    BY <2>2, <2>3, <2>4
  <2>6. Joined((Nodes \ todo) \cup {node}, edges')
    BY <1>1, <2>5, JoinedPlus
  <2>7. todo' = todo \ {node} /\ UNCHANGED phase
    BY <1>3 DEF Attach, node
  <2>8. Nodes \ todo' = (Nodes \ todo) \cup {node}
    BY <1>1, <2>1, <2>7
  <2>9. Joined(Nodes \ todo', edges') /\ todo' \subseteq Nodes
    BY <1>1, <2>6, <2>7, <2>8
  <2> QED BY <1>1, <2>7, <2>9 DEF GraphInv, ConnectedWhenPromised
<1>4. CASE Attached
  <2>1. todo = {} /\ Return(edges)
    BY <1>4 DEF Attached
  <2>2. Nodes \ todo = Nodes
    BY <2>1
  <2>3. Joined(Nodes, edges)
    BY <1>1, <2>2
  <2> QED BY <1>1, <2>1, <2>3, GraphReturns
<1> QED BY <1>3, <1>4

(* DRS: later edges leave both rings joined.                               *)
LEMMA TwoRingsGrow ==
  ASSUME NEW I, NEW O, NEW N, NEW p, p # "access", NEW q, q # "access",
         NEW s, NEW t, NEW E, NEW F, TwoRings(I, O, N, p, s, E), E \subseteq F
  PROVE  TwoRings(I, O, N, q, t, F)
<1>1. Joined(I, F) /\ Joined(O, F)
  BY JoinedGrows DEF TwoRings
<1> QED BY <1>1 DEF TwoRings

LEMMA TwoRingsAreOne ==
  ASSUME NEW I, NEW O, NEW N, NEW p, p # "access", NEW t, NEW E, TwoRings(I, O, N, p, t, E)
  PROVE  Joined(N, E)
<1>1. CASE O = {}
  <2>1. N = I
    BY <1>1 DEF TwoRings
  <2> QED BY <2>1 DEF TwoRings
<1>2. CASE O # {}
  <2>1. PICK u \in I : \E v \in O : {u, v} \in E
    BY <1>2 DEF TwoRings
  <2>2. PICK v \in O : {u, v} \in E
    BY <2>1
  <2>3. Joined(I \cup O, E)
    BY <2>2, JoinedUnion DEF TwoRings
  <2> QED BY <2>3 DEF TwoRings
<1> QED BY <1>1, <1>2

LEMMA GraphDRSStarts == GraphInv /\ StartDRS => GraphInv'
<1> SUFFICES ASSUME GraphInv, StartDRS PROVE GraphInv'
  OBVIOUS
<1> Nodes' = Nodes
  BY DEF Nodes, StartDRS
<1>1. /\ UNCHANGED domain /\ ~Rejected(domain) /\ domain.model = "drs"
      /\ domain.n \in Nat /\ Nodes = 0..(domain.n - 1)
  BY Declared DEF StartDRS, Accept, GraphInv
<1> DEFINE core == Core(baseline')
           outer == Nodes \ core
<1>2. core \in SUBSET Nodes /\ outer \in SUBSET Nodes /\ core \cup outer = Nodes
  BY DEF Core
<1>3. /\ rings'.inner = Sorted(core) /\ rings'.outer = Sorted(outer)
      /\ edges' = Backbone(Sorted(core)) \cup Backbone(Sorted(outer))
      /\ todo' = outer /\ phase' = "access"
  BY DEF StartDRS
<1> HIDE DEF core, outer
<1>4. ASSUME NEW S \in SUBSET Nodes
      PROVE  ToSet(Sorted(S)) = S /\ Joined(S, Backbone(Sorted(S)))
  <2>1. /\ Cardinality(S) \in Nat
        /\ Sorted(S) \in [1..Cardinality(S) -> S] /\ ToSet(Sorted(S)) = S
    BY <1>1, SortedIs
  <2>2. DOMAIN Sorted(S) = 1..Cardinality(S) /\ Len(Sorted(S)) = Cardinality(S)
    BY <2>1
  <2> QED BY <2>1, <2>2, BackboneJoined
<1>5. Joined(core, edges') /\ Joined(outer, edges')
  BY <1>2, <1>3, <1>4, JoinedGrows
<1>6. TwoRings(ToSet(rings'.inner), ToSet(rings'.outer), Nodes, phase', todo', edges')
  BY <1>2, <1>3, <1>4, <1>5 DEF TwoRings
<1> QED BY <1>1, <1>3, <1>6 DEF GraphInv, PhaseFits, ConnectedWhenPromised

(* A DRS stays one while rings and declaration do and only edges are added.*)
LEMMA GraphDRSGoesOn ==
  ASSUME GraphInv, UNCHANGED <<domain, rings>>, edges \subseteq edges',
         phase \in {"access", "shortcuts", "fill"}, phase' \in {"access", "shortcuts", "fill"},
         phase' = "access" => phase = "access" /\ todo' \subseteq todo,
         phase' # "access" /\ phase = "access" =>
           \E node \in todo, t \in ToSet(rings.inner) : {node, t} \in edges'
  PROVE  GraphInv'
<1> Nodes' = Nodes
  BY DEF Nodes
<1> DEFINE I == ToSet(rings.inner)
           O == ToSet(rings.outer)
<1>1. TwoRings(I, O, Nodes, phase, todo, edges)
  BY DEF GraphInv
<1>2. Joined(I, edges') /\ Joined(O, edges')
  BY <1>1, JoinedGrows DEF TwoRings
<1>3. CASE phase' = "access"
  BY <1>1, <1>2, <1>3 DEF GraphInv, TwoRings, PhaseFits, ConnectedWhenPromised
<1>4. CASE phase' # "access" /\ phase # "access"
  <2>1. TwoRings(I, O, Nodes, phase', todo', edges')
    BY <1>1, <1>4, TwoRingsGrow
  <2> QED BY <1>4, <2>1 DEF GraphInv, PhaseFits, ConnectedWhenPromised
<1>5. CASE phase' # "access" /\ phase = "access"
  <2>1. PICK node \in todo : \E t \in I : {node, t} \in edges'
    BY <1>5
  <2>2. PICK t \in I : {node, t} \in edges'
    BY <2>1
  <2>3. node \in O /\ {t, node} = {node, t}
    BY <1>1, <1>5 DEF TwoRings
  <2>4. TwoRings(I, O, Nodes, phase', todo', edges')
    BY <1>1, <1>2, <1>5, <2>2, <2>3 DEF TwoRings
  <2> QED BY <1>5, <2>4 DEF GraphInv, PhaseFits, ConnectedWhenPromised
<1> QED BY <1>3, <1>4, <1>5

(* The access links of an outer node are at least one.                     *)
LEMMA BetaIsPositive ==
  ASSUME GraphInv, ~Rejected(domain), domain.model = "drs"
  PROVE  Beta(domain) \in Nat /\ Beta(domain) > 0
<1>1. domain.beta \in Int /\ domain.beta > 0 /\ domain.beta % 100 = 0
  BY Declared, NotRejected DEF GraphInv, DRSRejected
<1> QED BY <1>1 DEF Beta

LEMMA GraphDRS ==
  GraphInv /\ (AddAccess \/ AddShortcuts \/ PlanFill \/ Fill \/ Filled) => GraphInv'
<1> SUFFICES ASSUME GraphInv, AddAccess \/ AddShortcuts \/ PlanFill \/ Fill \/ Filled
             PROVE  GraphInv'
  OBVIOUS
<1>1. /\ UNCHANGED <<domain, rings>> /\ ~Rejected(domain) /\ domain.model = "drs"
      /\ phase \in {"access", "shortcuts", "fill"}
  BY DEF GraphInv, PhaseFits, AddAccess, AddShortcuts, PlanFill, Fill, Filled, drsVars
<1>2. CASE AddAccess
  <2> DEFINE node == FirstOf(todo)
  <2> HIDE DEF node
  <2>1. PICK S \in Subsets(ToSet(rings.inner), Beta(domain)) :
          edges' = edges \cup {{node, target} : target \in S}
    BY <1>2 DEF AddAccess, node
  <2>2. S \subseteq ToSet(rings.inner) /\ S # {}
    <3>1. S \subseteq ToSet(rings.inner) /\ Cardinality(S) = Beta(domain)
      BY <2>1 DEF Subsets
    <3>2. Cardinality({}) = 0
      BY FS_EmptySet
    <3>3. Beta(domain) \in Nat /\ Beta(domain) > 0
      BY <1>1, BetaIsPositive
    <3> QED BY <3>1, <3>2, <3>3
  <2>3. PICK t \in S : TRUE
    BY <2>2
  <2>4. {node, t} \in edges' /\ t \in ToSet(rings.inner) /\ edges \subseteq edges'
    BY <2>1, <2>2, <2>3
  <2>5. phase = "access"
    BY <1>2 DEF AddAccess
  <2>6. CASE todo = {node}
    <3>1. phase' = "shortcuts" /\ node \in todo
      BY <1>2, <2>6 DEF AddAccess, node
    <3> QED BY <1>1, <2>4, <2>5, <3>1, GraphDRSGoesOn
  <2>7. CASE todo # {node}
    <3>1. phase' = "access" /\ todo' \subseteq todo
      BY <1>2, <2>5, <2>7 DEF AddAccess, node
    <3> QED BY <1>1, <2>4, <2>5, <3>1, GraphDRSGoesOn
  <2> QED BY <2>6, <2>7
<1>3. CASE AddShortcuts
  <2>1. /\ phase = "shortcuts" /\ edges \subseteq edges'
        /\ \/ phase' = "noTargets" /\ UNCHANGED edges
           \/ phase' = phase
    BY <1>3 DEF AddShortcuts
  <2> QED BY <1>1, <2>1, GraphDRSGoesOn, GraphQuiet
<1>4. CASE PlanFill
  <2>1. phase = "shortcuts" /\ UNCHANGED edges /\ phase' \in {"overBudget", "fill"}
    BY <1>4 DEF PlanFill
  <2> QED BY <1>1, <2>1, GraphDRSGoesOn, GraphQuiet
<1>5. CASE Fill
  <2>1. phase = "fill" /\ UNCHANGED phase /\ edges \subseteq edges'
    BY <1>5 DEF Fill
  <2> QED BY <1>1, <2>1, GraphDRSGoesOn
<1>6. CASE Filled
  <2>1. CASE Return(edges)
    <3>1. phase = "fill"
      BY <1>6 DEF Filled
    <3>2. TwoRings(ToSet(rings.inner), ToSet(rings.outer), Nodes, phase, todo, edges)
      BY <3>1 DEF GraphInv
    <3>3. Joined(Nodes, edges)
      BY <3>1, <3>2, TwoRingsAreOne
    <3> QED BY <1>1, <2>1, <3>3, GraphReturns
  <2>2. CASE ~Return(edges)
    <3>1. phase = "fill" /\ phase' = "underBudget" /\ UNCHANGED edges
      BY <1>6, <2>2 DEF Filled
    <3> QED BY <1>1, <3>1, GraphQuiet
  <2> QED BY <2>1, <2>2
<1> QED BY <1>2, <1>3, <1>4, <1>5, <1>6

(* Watts-Strogatz: every edge is a pair of nodes, wherever it is moved.    *)
LEMMA GraphWS == GraphInv /\ (StartWS \/ Rewire \/ Rewired) => GraphInv'
<1> SUFFICES ASSUME GraphInv, StartWS \/ Rewire \/ Rewired PROVE GraphInv'
  OBVIOUS
<1> Nodes' = Nodes
  BY DEF Nodes, StartWS, Rewire, Rewired
<1>1. /\ UNCHANGED domain /\ ~Rejected(domain) /\ domain.model = "ws"
      /\ domain.n \in Nat /\ domain.n > 0 /\ Nodes = 0..(domain.n - 1) /\ domain.k \in Int
  BY Declared, NotRejected DEF StartWS, Rewire, Rewired, Accept, GraphInv, PhaseFits
<1>2. CASE StartWS
  <2>1. ASSUME NEW i \in Nodes, NEW distance \in 1..(domain.k \div 2)
        PROVE  (i + distance) % domain.n \in Nodes
    BY <1>1
  <2>2. MadeOfPairs(edges', Nodes)
    BY <1>2, <2>1 DEF StartWS, MadeOfPairs
  <2>3. todo' \subseteq Nodes \X Nat /\ phase' = "rewire"
    BY <1>1, <1>2 DEF StartWS
  <2> QED BY <1>1, <2>2, <2>3 DEF GraphInv, PhaseFits, ConnectedWhenPromised
<1>3. CASE Rewire
  <2> DEFINE x == FirstPair(todo)
             original == {x[1], (x[1] + x[2]) % domain.n}
  <2>1. x \in todo /\ todo \subseteq Nodes \X Nat
    <3>1. todo \subseteq Nodes \X Nat /\ todo # {}
      BY <1>3 DEF Rewire, GraphInv
    <3>2. todo \subseteq Nat \X Nat
      BY <1>1, <3>1
    <3> QED BY <3>1, <3>2, FirstPairIsMember
  <2>2. x[1] \in Nodes
    BY <2>1
  <2>3. /\ phase = "rewire" /\ UNCHANGED phase /\ todo' = todo \ {x}
        /\ \/ UNCHANGED edges
           \/ \E target \in RewireTargets(x[1]) :
                edges' = (edges \ {original}) \cup {{x[1], target}}
    BY <1>3 DEF Rewire
  <2>4. MadeOfPairs(edges, Nodes)
    BY <1>1, <2>3 DEF GraphInv
  <2> HIDE DEF x, original
  <2>5. MadeOfPairs(edges', Nodes)
    <3>1. CASE UNCHANGED edges
      BY <2>4, <3>1
    <3>2. CASE ~UNCHANGED edges
      <4>1. PICK target \in RewireTargets(x[1]) :
              edges' = (edges \ {original}) \cup {{x[1], target}}
        BY <2>3, <3>2
      <4>2. target \in Nodes
        BY DEF RewireTargets
      <4> QED BY <2>2, <2>4, <4>1, <4>2 DEF MadeOfPairs
    <3> QED BY <3>1, <3>2
  <2>6. todo' \subseteq Nodes \X Nat
    BY <2>1, <2>3
  <2> QED BY <1>1, <2>3, <2>5, <2>6 DEF GraphInv, ConnectedWhenPromised, PhaseFits
<1>4. CASE Rewired
  <2>1. Return(edges) /\ MadeOfPairs(edges, Nodes)
    BY <1>1, <1>4 DEF Rewired, GraphInv
  <2> QED BY <1>1, <2>1, GraphReturns DEF ByConstruction
<1> QED BY <1>2, <1>3, <1>4

(* The repair and the normalization give what was promised.                *)
LEMMA GraphFinish == GraphInv /\ Finish => GraphInv'
<1> SUFFICES ASSUME GraphInv, Finish PROVE GraphInv'
  OBVIOUS
<1> Nodes' = Nodes
  BY DEF Nodes, Finish
<1>1. /\ UNCHANGED domain /\ ~Rejected(domain) /\ phase = "generated" /\ phase' = "done"
      /\ domain.n \in Nat /\ domain.model \in Models
      /\ domain.model = "matrix" => ~domain.ensureConnected
  BY Declared DEF Finish, GraphInv
<1> SUFFICES ASSUME domain.ensureConnected \/ ByConstruction(domain.model)
             PROVE  \A S \in (SUBSET Nodes) \ {{}, Nodes} : ~Closed(S, edges')
  BY <1>1 DEF GraphInv, PhaseFits, ConnectedWhenPromised, ByConstruction
<1> DEFINE repaired == domain.ensureConnected /\ Cardinality(Components(edges)) > 1
<1>2. \/ repaired /\ \E c \in Chains(Components(edges)) : edges' = edges \cup Links(c)
      \/ ~repaired /\ edges' = {e \in edges : Cardinality(e) = 2}
  BY DEF Finish
<1>3. CASE ByConstruction(domain.model)
  <2>1. Joined(Nodes, edges)
    BY <1>1, <1>3 DEF GraphInv
  <2>2. ASSUME NEW u \in Nodes, NEW v \in Nodes, u # v, {u, v} \in edges
        PROVE  {u, v} \in edges'
    <3>1. Cardinality({u, v}) = 2
      BY <2>2, PairHasTwo
    <3> QED BY <1>2, <2>2, <3>1
  <2> QED BY <2>1, <2>2, JoinedIsConnected
<1>4. CASE ~ByConstruction(domain.model)
  <2>1. MadeOfPairs(edges, Nodes) /\ domain.ensureConnected
    BY <1>1, <1>4 DEF GraphInv, ByConstruction
  <2>2. edges \subseteq SUBSET Nodes
    BY <2>1 DEF MadeOfPairs
  <2>3. CASE repaired
    BY <1>1, <1>2, <2>2, <2>3, RepairConnects
  <2>4. CASE ~repaired
    <3>1. \A S \in (SUBSET Nodes) \ {{}, Nodes} : ~Closed(S, edges)
      BY <1>1, <2>1, <2>2, <2>4, SinglePart
    <3>2. edges' = {e \in edges : Cardinality(e) = 2}
      BY <1>2, <2>4
    <3> QED BY <2>1, <3>1, <3>2, NormalizedIsClosed
  <2> QED BY <2>3, <2>4
<1> QED BY <1>3, <1>4

LEMMA GraphStep == GraphInv /\ [Next]_vars => GraphInv'
<1>1. CASE UNCHANGED vars
  BY <1>1, GraphQuiet DEF vars, drsVars
<1>2. CASE Reject \/ StartOpportunistic
  BY <1>2, GraphQuiet DEF Reject, StartOpportunistic
<1> QED BY <1>1, <1>2, GraphRegular, GraphSeeds, GraphAttach, GraphDRSStarts, GraphDRS,
           GraphWS, GraphFinish DEF Next

(* A message can reach everyone, in a graph of any size: whenever the      *)
(* model is connected by its construction or the declaration asks for it.  *)
THEOREM PromisesAreKept == Spec => []ConnectedWhenPromised
<1>1. GraphInv => ConnectedWhenPromised
  BY DEF GraphInv
<1> QED BY <1>1, GraphInit, GraphStep, PTL DEF Spec

-----------------------------------------------------------------------------
(* The fill of a DRS.  The chords left are chords of their ring, so a ring *)
(* that has one is not empty; and a ring that has one has had one all      *)
(* along, so the balance was never interrupted.                            *)
Lead(a, L) == a.inner * L.outer - a.outer * L.inner

Balanced(a, L) == -L.inner < Lead(a, L) /\ Lead(a, L) <= L.outer

Lengths == [r \in Rings |-> Len(rings[r])]

BalanceInv ==
  /\ Lengths \in [Rings -> Nat] /\ added \in [Rings -> Nat]
  /\ phase \in {"declared", "access", "shortcuts"} => \A r \in Rings : added[r] = 0
  /\ phase = "fill" =>
       /\ \A r \in Rings : Available(r) => Lengths[r] > 0
       /\ (\A r \in Rings : Available(r)) => Balanced(added, Lengths)

(* One more edge for the ring that is behind.                              *)
LEMMA ServeInner ==
  ASSUME NEW a \in Nat, NEW b \in Nat, NEW m \in Nat, NEW n \in Nat,
         -m < a * n - b * m, a * n <= b * m
  PROVE  -m < (a + 1) * n - b * m /\ (a + 1) * n - b * m <= n
<1>1. (a + 1) * n = a * n + n /\ a * n \in Int /\ b * m \in Int
  OBVIOUS
<1> QED BY <1>1

LEMMA ServeOuter ==
  ASSUME NEW a \in Nat, NEW b \in Nat, NEW m \in Nat, NEW n \in Nat,
         a * n - b * m <= n, ~ (a * n <= b * m)
  PROVE  -m < a * n - (b + 1) * m /\ a * n - (b + 1) * m <= n
<1>1. (b + 1) * m = b * m + m /\ a * n \in Int /\ b * m \in Int
  OBVIOUS
<1> QED BY <1>1

LEMMA BalanceInit == Init => BalanceInv
BY DEF Init, BalanceInv, Lengths, Rings

(* Rings, edges added and chords left are as they were.                    *)
LEMMA BalanceQuiet ==
  ASSUME BalanceInv, UNCHANGED drsVars, phase' # "fill",
         phase' \in {"declared", "access", "shortcuts"} =>
           phase \in {"declared", "access", "shortcuts"}
  PROVE  BalanceInv'
<1> Lengths' = Lengths
  BY DEF Lengths, drsVars
<1> QED BY DEF BalanceInv, drsVars

LEMMA BalanceStarts == GraphInv /\ BalanceInv /\ StartDRS => BalanceInv'
<1> SUFFICES ASSUME GraphInv, BalanceInv, StartDRS PROVE BalanceInv'
  OBVIOUS
<1>1. domain.n \in Nat /\ Nodes = 0..(domain.n - 1)
  BY Declared DEF GraphInv
<1> DEFINE core == Core(baseline')
<1>2. core \in SUBSET Nodes /\ Nodes \ core \in SUBSET Nodes
  BY DEF Core
<1>3. rings' = [inner |-> Sorted(core), outer |-> Sorted(Nodes \ core)]
  BY DEF StartDRS
<1> HIDE DEF core
<1>4. ASSUME NEW S \in SUBSET Nodes PROVE Len(Sorted(S)) \in Nat
  <2>1. Cardinality(S) \in Nat /\ Sorted(S) \in [1..Cardinality(S) -> S]
    BY <1>1, SortedIs
  <2> QED BY <2>1
<1>5. Lengths' \in [Rings -> Nat]
  BY <1>2, <1>3, <1>4 DEF Lengths, Rings
<1>6. phase = "declared" /\ phase' = "access" /\ UNCHANGED added
  BY DEF StartDRS, Accept
<1> QED BY <1>5, <1>6 DEF BalanceInv

LEMMA BalancePlanned == BalanceInv /\ PlanFill => BalanceInv'
<1> SUFFICES ASSUME BalanceInv, PlanFill PROVE BalanceInv'
  OBVIOUS
<1>1. UNCHANGED <<rings, added>> /\ phase = "shortcuts" /\ phase' \in {"overBudget", "fill"}
  BY DEF PlanFill
<1>2. Lengths' = Lengths
  BY <1>1 DEF Lengths
<1>3. CASE phase' = "fill"
  <2>1. candidates' = [r \in Rings |-> RingCandidates(rings[r], edges)]
    BY <1>3 DEF PlanFill
  <2>2. ASSUME NEW r \in Rings, candidates'[r] # {} PROVE Lengths[r] > 0
    <3>1. PICK x \in (2..(Len(rings[r]) \div 2)) \X (1..Len(rings[r])) : TRUE
      BY <2>1, <2>2 DEF RingCandidates
    <3>2. Lengths[r] = Len(rings[r]) /\ Lengths[r] \in Nat
      BY DEF Lengths, BalanceInv
    <3>3. x[2] \in 1..Lengths[r]
      BY <3>2
    <3> QED BY <3>2, <3>3
  <2>3. added.inner = 0 /\ added.outer = 0 /\ added \in [Rings -> Nat]
        /\ Lengths.inner \in Nat /\ Lengths.outer \in Nat
    BY <1>1 DEF BalanceInv, Rings
  <2>4. Lead(added, Lengths) = 0
    BY <2>3 DEF Lead
  <2>5. (\A r \in Rings : Available(r)') => Balanced(added, Lengths)
    <3> SUFFICES ASSUME \A r \in Rings : Available(r)' PROVE Balanced(added, Lengths)
      OBVIOUS
    <3>1. Lengths.inner > 0 /\ Lengths.outer > 0
      BY <2>2 DEF Rings, Available
    <3> QED BY <2>3, <2>4, <3>1 DEF Balanced
  <2> QED BY <1>1, <1>2, <1>3, <2>2, <2>5 DEF BalanceInv, Available
<1>4. CASE phase' = "overBudget"
  BY <1>1, <1>2, <1>4 DEF BalanceInv
<1> QED BY <1>1, <1>3, <1>4

LEMMA BalanceFilled == BalanceInv /\ Fill => BalanceInv'
<1> SUFFICES ASSUME BalanceInv, Fill PROVE BalanceInv'
  OBVIOUS
<1> DEFINE r == NextRing
           x == FirstPair(candidates[NextRing])
<1>1. /\ phase = "fill" /\ UNCHANGED <<phase, rings>>
      /\ candidates' = [candidates EXCEPT ![r] = @ \ {x}]
      /\ \/ UNCHANGED added
         \/ added' = [added EXCEPT ![r] = @ + 1]
  BY DEF Fill
<1>2. r \in Rings /\ (r = "inner" \/ r = "outer")
  BY DEF NextRing, Rings
<1>3. Lengths' = Lengths
  BY <1>1 DEF Lengths
<1>4. /\ added \in [Rings -> Nat] /\ Lengths \in [Rings -> Nat]
      /\ \A s \in Rings : Available(s) => Lengths[s] > 0
      /\ (\A s \in Rings : Available(s)) => Balanced(added, Lengths)
  BY <1>1 DEF BalanceInv
<1>5. \A s \in Rings : Available(s)' => Available(s)
  BY <1>1 DEF Available
<1>6. added' \in [Rings -> Nat]
  <2> HIDE DEF r
  <2> QED BY <1>1, <1>2, <1>4
<1>7. ASSUME \A s \in Rings : Available(s)' PROVE Balanced(added', Lengths)
  <2>1. \A s \in Rings : Available(s)
    BY <1>5, <1>7
  <2>2. Balanced(added, Lengths)
    BY <1>4, <2>1
  <2>3. /\ added.inner \in Nat /\ added.outer \in Nat
        /\ Lengths.inner \in Nat /\ Lengths.outer \in Nat
        /\ Lengths.inner = Len(rings.inner) /\ Lengths.outer = Len(rings.outer)
    BY <1>4 DEF Rings, Lengths
  <2>4. r = "inner" <=> added.inner * Lengths.outer <= added.outer * Lengths.inner
    BY <2>1, <2>3 DEF NextRing, Rings
  <2> HIDE DEF r
  <2>5. CASE UNCHANGED added
    BY <2>2, <2>5
  <2>6. CASE r = "inner" /\ added' = [added EXCEPT ![r] = @ + 1]
    <3>1. added'.inner = added.inner + 1 /\ added'.outer = added.outer
      BY <1>4, <2>6 DEF Rings
    <3>2. /\ -Lengths.inner < added.inner * Lengths.outer - added.outer * Lengths.inner
          /\ added.inner * Lengths.outer <= added.outer * Lengths.inner
      BY <2>2, <2>4, <2>6 DEF Balanced, Lead
    <3> QED BY <2>3, <3>1, <3>2, ServeInner DEF Balanced, Lead
  <2>7. CASE r = "outer" /\ added' = [added EXCEPT ![r] = @ + 1]
    <3>1. added'.outer = added.outer + 1 /\ added'.inner = added.inner
      BY <1>4, <2>7 DEF Rings
    <3>2. /\ added.inner * Lengths.outer - added.outer * Lengths.inner <= Lengths.outer
          /\ ~ (added.inner * Lengths.outer <= added.outer * Lengths.inner)
      BY <2>2, <2>4, <2>7 DEF Balanced, Lead
    <3> QED BY <2>3, <3>1, <3>2, ServeOuter DEF Balanced, Lead
  <2> QED BY <1>1, <1>2, <2>5, <2>6, <2>7
<1> QED BY <1>1, <1>3, <1>4, <1>5, <1>6, <1>7 DEF BalanceInv

LEMMA BalanceStep == GraphInv /\ BalanceInv /\ [Next]_vars => BalanceInv'
<1> SUFFICES ASSUME GraphInv, BalanceInv, [Next]_vars PROVE BalanceInv'
  OBVIOUS
<1>1. CASE UNCHANGED vars
  <2>1. Lengths' = Lengths
    BY <1>1 DEF vars, drsVars, Lengths
  <2> QED BY <1>1, <2>1 DEF vars, drsVars, BalanceInv, Available
<1>2. CASE AddAccess \/ AddShortcuts
  BY <1>2, BalanceQuiet DEF AddAccess, AddShortcuts
<1>3. CASE \/ Reject \/ GenerateER \/ GenerateRegular \/ GenerateMatrix
          \/ Attached \/ Rewired \/ Finish
  BY <1>3, BalanceQuiet
  DEF Reject, GenerateER, GenerateRegular, GenerateMatrix, Attached, Rewired, Finish, Return
<1>4. CASE StartBA \/ StartOpportunistic \/ PickSeed \/ Attach \/ StartWS \/ Rewire
  BY <1>4, BalanceQuiet DEF StartBA, StartOpportunistic, PickSeed, Attach, StartWS, Rewire
<1>5. CASE Filled
  BY <1>5, BalanceQuiet DEF Filled, Return
<1> QED BY <1>1, <1>2, <1>3, <1>4, <1>5, BalanceStarts, BalancePlanned, BalanceFilled DEF Next

(* While both rings still have chords to give, the fill serves them in     *)
(* proportion to their size, to within one edge, for rings of any size.    *)
THEOREM FillStaysBalanced == Spec => []FillIsBalanced
<1>1. BalanceInv => FillIsBalanced
  <2> SUFFICES ASSUME BalanceInv, phase = "fill", \A r \in Rings : Available(r)
               PROVE  LET lead == added.inner * Len(rings.outer) - added.outer * Len(rings.inner)
                      IN  -Len(rings.inner) < lead /\ lead <= Len(rings.outer)
    BY DEF FillIsBalanced
  <2>1. Balanced(added, Lengths)
    BY DEF BalanceInv
  <2>2. Lengths.inner = Len(rings.inner) /\ Lengths.outer = Len(rings.outer)
    BY DEF Lengths, Rings
  <2> QED BY <2>1, <2>2 DEF Balanced, Lead
<1> QED BY <1>1, GraphInit, GraphStep, BalanceInit, BalanceStep, PTL DEF Spec

-----------------------------------------------------------------------------
(* The score of a seed is a number: FoldSet's recursive function exists on *)
(* the subsets of the seeds, by the least size for which it would not.     *)
DelaySum(l, v, T) == FoldSet(LAMBDA u, total : total + l[{u, v}], 0, T)

OneOf(s) == CHOOSE u \in s : TRUE
SumStep(l, v, g, s) == IF s = {} THEN 0 ELSE g[s \ {OneOf(s)}] + l[{OneOf(s), v}]
SumsUpTo(l, v, T, g, k) ==
  \A s \in SUBSET T : Cardinality(s) <= k => g[s] = SumStep(l, v, g, s)

LEMMA OneFewer ==
  ASSUME NEW T, IsFiniteSet(T), NEW s \in SUBSET T
  PROVE  /\ IsFiniteSet(s) /\ Cardinality(s) \in Nat
         /\ Cardinality(s) = 0 <=> s = {}
         /\ s # {} => /\ OneOf(s) \in s /\ s \ {OneOf(s)} \in SUBSET T
                      /\ Cardinality(s \ {OneOf(s)}) = Cardinality(s) - 1
<1>1. IsFiniteSet(s) /\ Cardinality(s) \in Nat
  BY FS_Subset, FS_CardinalityType
<1>2. Cardinality(s) = 0 <=> s = {}
  BY <1>1, FS_EmptySet
<1>3. ASSUME s # {} PROVE OneOf(s) \in s
  BY <1>3 DEF OneOf
<1>4. ASSUME s # {} PROVE Cardinality(s \ {OneOf(s)}) = Cardinality(s) - 1
  BY <1>1, <1>3, <1>4, FS_RemoveElement
<1> QED BY <1>1, <1>2, <1>3, <1>4

LEMMA SumGrows ==
  ASSUME NEW T, IsFiniteSet(T), NEW l, NEW v, \A u \in T : l[{u, v}] \in Nat,
         NEW k \in Nat, NEW g \in [SUBSET T -> Nat], SumsUpTo(l, v, T, g, k)
  PROVE  \E h \in [SUBSET T -> Nat] : SumsUpTo(l, v, T, h, k + 1)
<1> DEFINE h == [s \in SUBSET T |-> IF Cardinality(s) = k + 1 THEN SumStep(l, v, g, s) ELSE g[s]]
<1>1. ASSUME NEW s \in SUBSET T PROVE SumStep(l, v, g, s) \in Nat
  <2>1. CASE s = {}
    BY <2>1 DEF SumStep
  <2>2. CASE s # {}
    <3>1. OneOf(s) \in T /\ s \ {OneOf(s)} \in SUBSET T
      BY <2>2, OneFewer
    <3>2. g[s \ {OneOf(s)}] \in Nat /\ l[{OneOf(s), v}] \in Nat
      BY <3>1
    <3> QED BY <2>2, <3>2 DEF SumStep
  <2> QED BY <2>1, <2>2
<1>2. h \in [SUBSET T -> Nat]
  BY <1>1
<1>3. ASSUME NEW s \in SUBSET T, Cardinality(s) <= k + 1 PROVE h[s] = SumStep(l, v, h, s)
  <2>1. CASE s = {}
    <3>0. Cardinality(s) = 0
      BY <2>1, OneFewer
    <3>1. Cardinality(s) <= k /\ h[s] = g[s]
      BY <3>0
    <3>2. g[s] = SumStep(l, v, g, s)
      BY <3>1 DEF SumsUpTo
    <3> QED BY <2>1, <3>1, <3>2 DEF SumStep
  <2>2. CASE s # {}
    <3> DEFINE r == s \ {OneOf(s)}
    <3>1. r \in SUBSET T /\ Cardinality(r) = Cardinality(s) - 1 /\ Cardinality(s) \in Nat
      BY <2>2, OneFewer
    <3>2. h[r] = g[r]
      <4>1. Cardinality(r) # k + 1
        BY <1>3, <3>1
      <4> QED BY <3>1, <4>1
    <3>3. SumStep(l, v, h, s) = SumStep(l, v, g, s)
      <4> HIDE DEF h
      <4> QED BY <2>2, <3>2 DEF SumStep
    <3>4. CASE Cardinality(s) = k + 1
      BY <3>3, <3>4
    <3>5. CASE Cardinality(s) # k + 1
      <4>1. Cardinality(s) <= k
        BY <1>3, <3>1, <3>5
      <4>2. h[s] = g[s]
        BY <3>5
      <4>3. g[s] = SumStep(l, v, g, s)
        BY <4>1 DEF SumsUpTo
      <4> QED BY <3>3, <4>2, <4>3
    <3> QED BY <3>4, <3>5
  <2> QED BY <2>1, <2>2
<1> HIDE DEF h
<1> QED BY <1>2, <1>3 DEF SumsUpTo

LEMMA SumsExist ==
  ASSUME NEW T, IsFiniteSet(T), NEW l, NEW v, \A u \in T : l[{u, v}] \in Nat
  PROVE  \A k \in Nat : \E g \in [SUBSET T -> Nat] : SumsUpTo(l, v, T, g, k)
<1> DEFINE Reaches(k) == \E g \in [SUBSET T -> Nat] : SumsUpTo(l, v, T, g, k)
           Bad == {k \in Nat : ~Reaches(k)}
<1> SUFFICES ASSUME Bad # {} PROVE FALSE
  OBVIOUS
<1>1. PICK k \in Bad : \A y \in Bad : k <= y
  <2>1. Bad \subseteq Nat
    OBVIOUS
  <2> HIDE DEF Bad
  <2> QED BY <2>1, LeastNatural
<1>2. k \in Nat /\ ~Reaches(k)
  OBVIOUS
<1>3. k # 0
  <2>1. [s \in SUBSET T |-> 0] \in [SUBSET T -> Nat]
    OBVIOUS
  <2>2. SumsUpTo(l, v, T, [s \in SUBSET T |-> 0], 0)
    <3> SUFFICES ASSUME NEW s \in SUBSET T, Cardinality(s) <= 0
                 PROVE  0 = SumStep(l, v, [r \in SUBSET T |-> 0], s)
      BY DEF SumsUpTo
    <3>1. Cardinality(s) \in Nat /\ (Cardinality(s) = 0 <=> s = {})
      BY OneFewer
    <3>2. s = {}
      BY <3>1
    <3> QED BY <3>2 DEF SumStep
  <2> QED BY <1>2, <2>1, <2>2
<1>4. k - 1 \in Nat /\ (k - 1) + 1 = k
  BY <1>2, <1>3
<1>5. Reaches(k - 1)
  <2> SUFFICES ASSUME ~Reaches(k - 1) PROVE FALSE
    OBVIOUS
  <2> HIDE DEF Reaches
  <2>1. k - 1 \in Bad
    BY <1>4
  <2> HIDE DEF Bad
  <2>2. k <= k - 1
    BY <1>1, <2>1
  <2> QED BY <1>2, <2>2
<1>6. PICK g \in [SUBSET T -> Nat] : SumsUpTo(l, v, T, g, k - 1)
  BY <1>5
<1>7. \E h \in [SUBSET T -> Nat] : SumsUpTo(l, v, T, h, (k - 1) + 1)
  BY <1>4, <1>6, SumGrows
<1> QED BY <1>2, <1>4, <1>7

LEMMA DelaySumIsNatural ==
  ASSUME NEW T, IsFiniteSet(T), NEW l, NEW v, \A u \in T : l[{u, v}] \in Nat
  PROVE  DelaySum(l, v, T) \in Nat
<1> DEFINE Sums(g) == g = [s \in SUBSET T |->
                             IF s = {} THEN 0
                             ELSE g[s \ {CHOOSE u \in s : TRUE}] + l[{CHOOSE u \in s : TRUE, v}]]
           iter == CHOOSE g : Sums(g)
<1>1. DelaySum(l, v, T) = iter[T]
  BY DEF DelaySum, FoldSet, MapThenFoldSet
<1>2. \E g : Sums(g)
  <2>1. Cardinality(T) \in Nat
    BY FS_CardinalityType
  <2>2. PICK g \in [SUBSET T -> Nat] : SumsUpTo(l, v, T, g, Cardinality(T))
    BY <2>1, SumsExist
  <2>3. ASSUME NEW s \in SUBSET T PROVE g[s] = SumStep(l, v, g, s)
    <3>1. Cardinality(s) <= Cardinality(T)
      BY FS_Subset
    <3> QED BY <2>2, <3>1 DEF SumsUpTo
  <2>4. g = [s \in SUBSET T |-> SumStep(l, v, g, s)]
    BY <2>2, <2>3
  <2>5. Sums(g)
    BY <2>4 DEF SumStep, OneOf
  <2> QED BY <2>5
<1>3. Sums(iter)
  BY <1>2
<1> HIDE DEF iter
<1>4. \A s \in SUBSET T : iter[s] = SumStep(l, v, iter, s)
  BY <1>3 DEF SumStep, OneOf
<1> DEFINE Bad == {Cardinality(s) : s \in {r \in SUBSET T : iter[r] \notin Nat}}
<1>5. Bad = {}
  <2> SUFFICES ASSUME Bad # {} PROVE FALSE
    OBVIOUS
  <2>1. Bad \subseteq Nat
    <3>1. \A s \in SUBSET T : Cardinality(s) \in Nat
      BY OneFewer
    <3> QED BY <3>1
  <2>2. PICK k \in Bad : \A y \in Bad : k <= y
    BY <2>1, LeastNatural
  <2>3. PICK s \in SUBSET T : iter[s] \notin Nat /\ k = Cardinality(s)
    OBVIOUS
  <2>4. CASE s = {}
    <3>1. iter[s] = SumStep(l, v, iter, s)
      BY <1>4
    <3>2. iter[s] = 0
      BY <2>4, <3>1 DEF SumStep
    <3> QED BY <2>3, <3>2
  <2>5. CASE s # {}
    <3> DEFINE r == s \ {OneOf(s)}
    <3>1. /\ r \in SUBSET T /\ Cardinality(r) = Cardinality(s) - 1
          /\ Cardinality(s) \in Nat /\ OneOf(s) \in T
      BY <2>5, OneFewer
    <3>2. iter[s] = iter[r] + l[{OneOf(s), v}]
      BY <1>4, <2>5 DEF SumStep
    <3>3. iter[r] \notin Nat
      <4> SUFFICES ASSUME iter[r] \in Nat PROVE FALSE
        OBVIOUS
      <4>1. l[{OneOf(s), v}] \in Nat
        BY <3>1
      <4> HIDE DEF r
      <4> QED BY <2>3, <3>2, <4>1
    <3>4. Cardinality(r) \in Bad
      BY <3>1, <3>3
    <3> HIDE DEF Bad, r
    <3>5. k <= Cardinality(r)
      BY <2>2, <3>4
    <3> QED BY <2>3, <3>1, <3>5
  <2> QED BY <2>4, <2>5
<1>6. T \in SUBSET T
  OBVIOUS
<1>7. iter[T] \in Nat
  BY <1>5, <1>6
<1> QED BY <1>1, <1>7

-----------------------------------------------------------------------------
(* The next seed is a node that is not one yet.                            *)
LEMMA BestSeedIsNode ==
  ASSUME domain \in Domains, seeds \subseteq Nodes, Nodes \ seeds # {},
         baseline \in domain.baselines, linkDelay \in domain.linkDelays
  PROVE  BestSeed \in Nodes \ seeds
<1> DEFINE rest == Nodes \ seeds
           best == {v \in rest : \A u \in rest : SeedScore(v) <= SeedScore(u)}
           Scores == {SeedScore(v) : v \in rest}
<1>1. domain.n \in Nat /\ Nodes \subseteq Nat /\ Nodes = NodesOf(domain)
  BY Declared DEF Nodes
<1>2. IsFiniteSet(seeds) /\ Cardinality(seeds) \in Nat
  BY <1>1, NodesAreFinite
<1>3. /\ \A v \in Nodes : baseline[v] \in Nat
      /\ \A e \in PairsOf(domain) : linkDelay[e] \in Nat
  BY <1>1, TopologyAssumption DEF DomainType
<1>4. ASSUME NEW v \in rest PROVE SeedScore(v) \in Nat
  <2>1. ASSUME NEW u \in seeds PROVE linkDelay[{u, v}] \in Nat
    <3>1. u \in Nodes /\ v \in Nodes /\ u # v /\ u \in Nat /\ v \in Nat
      BY <1>1
    <3>2. {u, v} \in PairsOf(domain)
      <4>1. CASE u < v
        <5>1. <<u, v>> \in {y \in NodesOf(domain) \X NodesOf(domain) : y[1] < y[2]}
          BY <1>1, <3>1, <4>1
        <5> QED BY <5>1 DEF PairsOf
      <4>2. CASE v < u
        <5>1. <<v, u>> \in {y \in NodesOf(domain) \X NodesOf(domain) : y[1] < y[2]}
          BY <1>1, <3>1, <4>2
        <5>2. {v, u} \in PairsOf(domain)
          BY <5>1 DEF PairsOf
        <5>3. {v, u} = {u, v}
          OBVIOUS
        <5> QED BY <5>2, <5>3
      <4> QED BY <3>1, <4>1, <4>2
    <3> QED BY <1>3, <3>2
  <2>2. DelaySum(linkDelay, v, seeds) \in Nat
    BY <1>2, <2>1, DelaySumIsNatural
  <2>3. SeedScore(v) = IF seeds = {} THEN baseline[v]
                       ELSE Cardinality(seeds) * baseline[v] + DelaySum(linkDelay, v, seeds)
    BY DEF SeedScore, DelaySum
  <2>4. baseline[v] \in Nat
    BY <1>3
  <2>5. Cardinality(seeds) * baseline[v] \in Nat
    BY <1>2, <2>4
  <2> QED BY <2>2, <2>3, <2>4, <2>5
<1>5. PICK low \in Scores : \A y \in Scores : low <= y
  <2>1. Scores \subseteq Nat /\ Scores # {}
    BY <1>4
  <2> HIDE DEF Scores
  <2> QED BY <2>1, LeastNatural
<1>6. PICK v \in rest : low = SeedScore(v)
  OBVIOUS
<1>7. v \in best
  BY <1>5, <1>6
<1>8. best \subseteq Nat /\ best # {}
  BY <1>1, <1>7
<1>9. FirstOf(best) \in best
  <2> HIDE DEF best
  <2> QED BY <1>8, FirstIsMember
<1>10. BestSeed = FirstOf(best)
  BY DEF BestSeed
<1> QED BY <1>9, <1>10

-----------------------------------------------------------------------------
(* The nodes a node has an edge with, and how many there are.              *)
Adjacent(v, E, N) == {u \in N : {u, v} \in E /\ u # v}
Keeps(E, F, N) == \A u, v \in N : u # v /\ {u, v} \in E => {u, v} \in F

LEMMA NeighborsAreAdjacent == \A v : Neighbors(v) = Adjacent(v, edges, Nodes)
BY DEF Neighbors, Adjacent

LEMMA MoreNeighbors ==
  ASSUME domain.n \in Nat, NEW E, NEW F, Keeps(E, F, Nodes), NEW v \in Nodes
  PROVE  /\ Adjacent(v, E, Nodes) \subseteq Adjacent(v, F, Nodes)
         /\ Cardinality(Adjacent(v, E, Nodes)) \in Nat
         /\ Cardinality(Adjacent(v, F, Nodes)) \in Nat
         /\ Cardinality(Adjacent(v, E, Nodes)) <= Cardinality(Adjacent(v, F, Nodes))
<1>1. Adjacent(v, E, Nodes) \subseteq Adjacent(v, F, Nodes)
  BY DEF Adjacent, Keeps
<1>2. Adjacent(v, E, Nodes) \in SUBSET Nodes /\ Adjacent(v, F, Nodes) \in SUBSET Nodes
  BY DEF Adjacent
<1>3. /\ IsFiniteSet(Adjacent(v, F, Nodes))
      /\ Cardinality(Adjacent(v, E, Nodes)) \in Nat
      /\ Cardinality(Adjacent(v, F, Nodes)) \in Nat
  BY <1>2, NodesAreFinite
<1> QED BY <1>1, <1>3, FS_Subset

(* Those who have a set of neighbors have at least as many.                *)
LEMMA AtLeast ==
  ASSUME domain.n \in Nat, NEW E, NEW v \in Nodes, NEW T \in SUBSET Adjacent(v, E, Nodes)
  PROVE  /\ Cardinality(T) \in Nat /\ Cardinality(Adjacent(v, E, Nodes)) \in Nat
         /\ Cardinality(T) <= Cardinality(Adjacent(v, E, Nodes))
<1>1. T \in SUBSET Nodes /\ Adjacent(v, E, Nodes) \in SUBSET Nodes
  BY DEF Adjacent
<1>2. /\ Cardinality(T) \in Nat /\ Cardinality(Adjacent(v, E, Nodes)) \in Nat
      /\ IsFiniteSet(Adjacent(v, E, Nodes))
  BY <1>1, NodesAreFinite
<1> QED BY <1>2, FS_Subset

(* Barabasi-Albert.  A node in the graph has m neighbors.                  *)
HaveLinks(D, E, N, m) == \A v \in D : Cardinality(Adjacent(v, E, N)) >= m

LEMMA LinksGrow ==
  ASSUME domain.n \in Nat, NEW D \in SUBSET Nodes, NEW E, NEW F, Keeps(E, F, Nodes),
         NEW m \in Int, HaveLinks(D, E, Nodes, m)
  PROVE  HaveLinks(D, F, Nodes, m)
<1> SUFFICES ASSUME NEW v \in D PROVE Cardinality(Adjacent(v, F, Nodes)) >= m
  BY DEF HaveLinks
<1>1. Cardinality(Adjacent(v, E, Nodes)) >= m
  BY DEF HaveLinks
<1>2. /\ Cardinality(Adjacent(v, E, Nodes)) \in Nat
      /\ Cardinality(Adjacent(v, F, Nodes)) \in Nat
      /\ Cardinality(Adjacent(v, E, Nodes)) <= Cardinality(Adjacent(v, F, Nodes))
  BY MoreNeighbors
<1> QED BY <1>1, <1>2

LEMMA CliqueHasLinks ==
  ASSUME domain.n \in Nat, NEW T \in SUBSET Nodes, NEW m \in Int, Cardinality(T) > m
  PROVE  HaveLinks(T, Clique(T), Nodes, m)
<1> SUFFICES ASSUME NEW v \in T PROVE Cardinality(Adjacent(v, Clique(T), Nodes)) >= m
  BY DEF HaveLinks
<1>1. ASSUME NEW u \in T \ {v} PROVE u \in Adjacent(v, Clique(T), Nodes)
  <2>1. Cardinality({u, v}) = 2
    BY PairHasTwo
  <2>2. {u, v} \in Clique(T)
    BY <2>1 DEF Clique
  <2> QED BY <2>2 DEF Adjacent
<1>2. T \ {v} \in SUBSET Adjacent(v, Clique(T), Nodes)
  BY <1>1
<1>3. /\ Cardinality(T \ {v}) \in Nat /\ Cardinality(Adjacent(v, Clique(T), Nodes)) \in Nat
      /\ Cardinality(T \ {v}) <= Cardinality(Adjacent(v, Clique(T), Nodes))
  BY <1>2, AtLeast
<1>4. Cardinality(T \ {v}) = Cardinality(T) - 1 /\ Cardinality(T) \in Nat
  BY NodesAreFinite, FS_RemoveElement
<1> QED BY <1>3, <1>4

LEMMA JoiningHasLinks ==
  ASSUME domain.n \in Nat, NEW D \in SUBSET Nodes, NEW E, NEW m \in Int,
         HaveLinks(D, E, Nodes, m),
         NEW node \in Nodes \ D, NEW S \in SUBSET D, Cardinality(S) = m
  PROVE  HaveLinks(D \cup {node}, E \cup {{node, target} : target \in S}, Nodes, m)
<1> DEFINE F == E \cup {{node, target} : target \in S}
<1>1. HaveLinks(D, F, Nodes, m)
  <2>1. Keeps(E, F, Nodes)
    BY DEF Keeps
  <2> HIDE DEF F
  <2> QED BY <2>1, LinksGrow
<1>2. S \in SUBSET Adjacent(node, F, Nodes)
  <2> SUFFICES ASSUME NEW u \in S PROVE u \in Nodes /\ {u, node} \in F /\ u # node
    BY DEF Adjacent
  <2>1. {u, node} = {node, u}
    OBVIOUS
  <2> QED BY <2>1
<1> HIDE DEF F
<1>3. Cardinality(Adjacent(node, F, Nodes)) >= m
  BY <1>2, AtLeast
<1> QED BY <1>1, <1>3 DEF HaveLinks, F


(* Watts-Strogatz.  Every position of the lattice owns one edge, at the    *)
(* position's own node, and every edge has one owner; a position whose     *)
(* turn is to come owns the edge of the lattice.                           *)
Lattice(x) == {x[1], (x[1] + x[2]) % domain.n}
Positions == Nodes \X (1..(domain.k \div 2))

Owns(own, turns, E) ==
  /\ own \in [Positions -> E]
  /\ \A e \in E : \E x \in Positions : own[x] = e
  /\ \A x, y \in Positions : own[x] = own[y] => x = y
  /\ \A x \in Positions : \E u \in Nodes : u # x[1] /\ own[x] = {x[1], u}
  /\ \A x \in turns : x \in Positions /\ own[x] = Lattice(x)

LEMMA ModOnce ==
  ASSUME NEW n \in Nat, n > 0, NEW a \in Nat, a < 2 * n
  PROVE  a % n = IF a < n THEN a ELSE a - n
OBVIOUS

LEMMA LatticeIsSimple ==
  ASSUME domain \in Domains, ~Rejected(domain), domain.model = "ws"
  PROVE  /\ \A x \in Positions : /\ (x[1] + x[2]) % domain.n \in Nodes
                                 /\ (x[1] + x[2]) % domain.n # x[1]
         /\ \A x, y \in Positions : Lattice(x) = Lattice(y) => x = y
<1>1. /\ domain.n \in Nat /\ domain.n > 0 /\ Nodes = 0..(domain.n - 1)
      /\ domain.k \in Int /\ domain.k > 0 /\ domain.k < domain.n
  BY Declared, NotRejected DEF LatticeRejected
<1> DEFINE n == domain.n
           h == domain.k \div 2
           next(x) == (x[1] + x[2]) % n
<1>2. h \in Nat /\ 2 * h < n
  BY <1>1
<1> HIDE DEF h
<1>3. ASSUME NEW x \in Positions
      PROVE  /\ x[1] \in Nat /\ x[2] \in Nat /\ x[1] < n /\ x[2] > 0 /\ x[2] <= h
             /\ next(x) = IF x[1] + x[2] < n THEN x[1] + x[2] ELSE x[1] + x[2] - n
  <2>1. x[1] \in 0..(n - 1) /\ x[2] \in 1..h
    BY <1>1 DEF Positions, h
  <2>2. x[1] \in Nat /\ x[2] \in Nat /\ x[1] < n /\ x[2] > 0 /\ x[2] <= h
    BY <1>1, <1>2, <2>1
  <2>3. x[1] + x[2] \in Nat /\ x[1] + x[2] < 2 * n
    BY <1>1, <1>2, <2>2
  <2>4. n \in Nat /\ n > 0
    BY <1>1
  <2> DEFINE a == x[1] + x[2]
  <2>5. a \in Nat /\ a < 2 * n
    BY <2>3
  <2> HIDE DEF n, a
  <2>6. a % n = IF a < n THEN a ELSE a - n
    BY <2>4, <2>5, ModOnce
  <2>7. next(x) = a % n
    BY DEF a
  <2> HIDE DEF next
  <2>8. next(x) = IF x[1] + x[2] < n THEN x[1] + x[2] ELSE x[1] + x[2] - n
    <3>1. next(x) = IF a < n THEN a ELSE a - n
      BY <2>6, <2>7
    <3>2. a = x[1] + x[2]
      BY DEF a
    <3> QED BY <2>2, <2>4, <2>5, <3>1, <3>2
  <2> QED BY <2>2, <2>8
<1>4. ASSUME NEW x \in Positions PROVE next(x) \in Nodes /\ next(x) # x[1]
  <2>1. next(x) \in Nat /\ next(x) < n /\ next(x) # x[1]
    <3> DEFINE a == x[1]
               b == x[2]
               c == next(x)
    <3>1. /\ a \in Nat /\ b \in Nat /\ a < n /\ b > 0 /\ b <= h
          /\ c = IF a + b < n THEN a + b ELSE a + b - n
      BY <1>3
    <3>2. n \in Nat /\ h < n /\ h \in Nat
      BY <1>1, <1>2
    <3> HIDE DEF n, h, a, b, c
    <3>3. c \in Nat /\ c < n /\ c # a
      BY <3>1, <3>2
    <3> QED BY <3>3 DEF a, c
  <2> QED BY <1>1, <2>1
<1>5. ASSUME NEW x \in Positions, NEW y \in Positions, Lattice(x) = Lattice(y) PROVE x = y
  <2>1. {x[1], next(x)} = {y[1], next(y)}
    BY <1>5 DEF Lattice
  <2>2. \/ x[1] = y[1] /\ next(x) = next(y)
        \/ x[1] = next(y) /\ next(x) = y[1]
    BY <2>1, <1>4
  <2>3. x[1] = y[1] /\ x[2] = y[2]
    <3>1. n \in Nat
      BY <1>1
    <3> HIDE DEF n, next
    <3>2. CASE x[1] = y[1] /\ next(x) = next(y)
      BY <1>2, <1>3, <3>1, <3>2
    <3>3. CASE x[1] = next(y) /\ next(x) = y[1]
      BY <1>2, <1>3, <3>1, <3>3
    <3> QED BY <2>2, <3>2, <3>3
  <2> QED BY <2>3 DEF Positions
<1> QED BY <1>4, <1>5

(* At the start they own the lattice.                                      *)
LEMMA LatticeIsOwned ==
  ASSUME domain \in Domains, ~Rejected(domain), domain.model = "ws"
  PROVE  Owns([x \in Positions |-> Lattice(x)], Positions,
              {{i, (i + distance) % domain.n} : i \in Nodes, distance \in 1..(domain.k \div 2)})
<1> DEFINE own == [x \in Positions |-> Lattice(x)]
           E == {{i, (i + distance) % domain.n} : i \in Nodes, distance \in 1..(domain.k \div 2)}
<1>1. ASSUME NEW x \in Positions PROVE Lattice(x) \in E
  BY DEF Positions, Lattice
<1>2. ASSUME NEW e \in E PROVE \E x \in Positions : own[x] = e
  <2>1. PICK i \in Nodes, distance \in 1..(domain.k \div 2) : e = {i, (i + distance) % domain.n}
    OBVIOUS
  <2>2. <<i, distance>> \in Positions
    BY DEF Positions
  <2>3. own[<<i, distance>>] = e
    BY <2>1, <2>2 DEF Lattice
  <2> QED BY <2>2, <2>3
<1>3. own \in [Positions -> E]
  BY <1>1
<1>4. ASSUME NEW x \in Positions, NEW y \in Positions, own[x] = own[y] PROVE x = y
  <2>1. Lattice(x) = Lattice(y)
    BY <1>4
  <2> QED BY <2>1, LatticeIsSimple
<1>5. \A x \in Positions : \E u \in Nodes : u # x[1] /\ own[x] = {x[1], u}
  BY LatticeIsSimple DEF Lattice
<1>6. \A x \in Positions : own[x] = Lattice(x)
  OBVIOUS
<1> HIDE DEF E, own
<1>7. Owns(own, Positions, E)
  BY <1>2, <1>3, <1>4, <1>5, <1>6 DEF Owns
<1> QED BY <1>7 DEF own, E

(* A position's edge moves, at the position's node and to a new neighbor.  *)
LEMMA OwnedEdgeMoves ==
  ASSUME NEW own, NEW turns, NEW E, Owns(own, turns, E),
         NEW x \in turns, NEW t \in Nodes, t # x[1], {x[1], t} \notin E
  PROVE  Owns([own EXCEPT ![x] = {x[1], t}], turns \ {x},
              (E \ {Lattice(x)}) \cup {{x[1], t}})
<1> DEFINE new == [own EXCEPT ![x] = {x[1], t}]
           F == (E \ {Lattice(x)}) \cup {{x[1], t}}
<1>1. /\ x \in Positions /\ own[x] = Lattice(x)
      /\ own \in [Positions -> E]
      /\ \A y, z \in Positions : own[y] = own[z] => y = z
  BY DEF Owns
<1>2. ASSUME NEW y \in Positions, y # x
      PROVE  new[y] = own[y] /\ own[y] \in E \ {Lattice(x)} /\ own[y] # {x[1], t}
  <2>1. own[y] # own[x] /\ own[y] \in E
    BY <1>1, <1>2
  <2> QED BY <1>1, <1>2, <2>1
<1>3. new[x] = {x[1], t} /\ DOMAIN new = Positions
  BY <1>1
<1>4. new \in [Positions -> F]
  <2>1. \A y \in Positions : new[y] \in F
    BY <1>2, <1>3
  <2>2. new = [y \in Positions |-> new[y]]
    BY <1>1
  <2> HIDE DEF new, F
  <2> QED BY <2>1, <2>2
<1>5. ASSUME NEW e \in F PROVE \E y \in Positions : new[y] = e
  <2>1. CASE e = {x[1], t}
    BY <1>1, <1>3, <2>1
  <2>2. CASE e # {x[1], t}
    <3>1. e \in E /\ e # own[x]
      BY <1>1, <2>2
    <3>2. PICK y \in Positions : own[y] = e
      BY <3>1 DEF Owns
    <3> QED BY <1>2, <3>1, <3>2
  <2> QED BY <2>1, <2>2
<1>6. ASSUME NEW y \in Positions, NEW z \in Positions, new[y] = new[z] PROVE y = z
  <2>1. CASE y # x /\ z # x
    BY <1>1, <1>2, <1>6, <2>1
  <2>2. CASE y = x \/ z = x
    BY <1>2, <1>3, <1>6, <2>2
  <2> QED BY <2>1, <2>2
<1>7. ASSUME NEW y \in Positions PROVE \E u \in Nodes : u # y[1] /\ new[y] = {y[1], u}
  <2>1. CASE y = x
    BY <1>3, <2>1
  <2>2. CASE y # x
    BY <1>2, <2>2 DEF Owns
  <2> QED BY <2>1, <2>2
<1>8. ASSUME NEW y \in turns \ {x} PROVE y \in Positions /\ new[y] = Lattice(y)
  <2>1. y \in Positions /\ own[y] = Lattice(y) /\ y # x
    BY DEF Owns
  <2> QED BY <1>2, <2>1
<1> HIDE DEF new, F
<1> QED BY <1>4, <1>5, <1>6, <1>7, <1>8 DEF Owns

(* A node owns one edge for each of its positions.                         *)
LEMMA OwnersHaveLinks ==
  ASSUME domain \in Domains, NEW own, NEW turns, NEW E, Owns(own, turns, E)
  PROVE  HaveLinks(Nodes, E, Nodes, domain.k \div 2)
<1>1. domain.n \in Nat /\ domain.k \in Int /\ domain.k \div 2 \in Int
  BY Declared
<1> DEFINE h == domain.k \div 2
<1> HIDE DEF h
<1> SUFFICES ASSUME NEW v \in Nodes PROVE Cardinality(Adjacent(v, E, Nodes)) >= h
  BY DEF HaveLinks, h
<1> DEFINE other(i) == CHOOSE u \in Nodes : u # v /\ own[<<v, i>>] = {v, u}
           f == [i \in 1..h |-> other(i)]
<1>2. ASSUME NEW i \in 1..h
      PROVE  /\ <<v, i>> \in Positions
             /\ other(i) \in Nodes /\ other(i) # v /\ own[<<v, i>>] = {v, other(i)}
             /\ own[<<v, i>>] \in E
  <2>1. <<v, i>> \in Positions /\ <<v, i>>[1] = v
    BY DEF Positions, h
  <2>2. \E u \in Nodes : u # v /\ own[<<v, i>>] = {v, u}
    BY <2>1 DEF Owns
  <2> QED BY <2>1, <2>2 DEF Owns
<1>3. \A i \in 1..h : other(i) \in Adjacent(v, E, Nodes)
  <2> SUFFICES ASSUME NEW i \in 1..h PROVE other(i) \in Adjacent(v, E, Nodes)
    OBVIOUS
  <2>1. {other(i), v} = {v, other(i)}
    OBVIOUS
  <2>2. other(i) \in Nodes /\ other(i) # v /\ {other(i), v} \in E
    BY <1>2, <2>1
  <2> HIDE DEF other
  <2> QED BY <2>2 DEF Adjacent
<1>4. ASSUME NEW i \in 1..h, NEW j \in 1..h, other(i) = other(j) PROVE i = j
  <2>1. own[<<v, i>>] = own[<<v, j>>]
    BY <1>2, <1>4
  <2>2. <<v, i>> = <<v, j>>
    BY <1>2, <2>1 DEF Owns
  <2> QED BY <2>2
<1> HIDE DEF other
<1>5. f \in Injection(1..h, Adjacent(v, E, Nodes))
  BY <1>3, <1>4 DEF Injection, IsInjective
<1>6. /\ IsFiniteSet(Adjacent(v, E, Nodes))
      /\ Cardinality(Adjacent(v, E, Nodes)) \in Nat
  <2>1. Adjacent(v, E, Nodes) \in SUBSET Nodes
    BY DEF Adjacent
  <2> QED BY <1>1, <2>1, NodesAreFinite
<1>7. Cardinality(1..h) <= Cardinality(Adjacent(v, E, Nodes))
  BY <1>5, <1>6, FS_Injection
<1>8. h \in Int /\ Cardinality(1..h) = IF 1 > h THEN 0 ELSE h - 1 + 1
  <2>1. h \in Int /\ 1 \in Int
    BY <1>1 DEF h
  <2> QED BY <2>1, FS_Interval
<1> QED BY <1>6, <1>7, <1>8

(* Double-ring small world.  The core has the size asked for: the ranking  *)
(* by delay and index numbers the nodes.                                   *)
Faster(b, v) == {u \in Nodes : b[u] < b[v] \/ (b[u] = b[v] /\ u < v)}

LEMMA CoreHasItsSize ==
  ASSUME domain \in Domains, NEW b \in domain.baselines,
         NEW c \in Nat, c <= domain.n
  PROVE  Cardinality({v \in Nodes : Cardinality(Faster(b, v)) < c}) = c
<1>1. /\ domain.n \in Nat /\ Nodes = 0..(domain.n - 1) /\ Nodes \subseteq Nat
      /\ \A v \in Nodes : b[v] \in Nat
  <2>1. DomainType(domain)
    BY TopologyAssumption
  <2>2. Nodes = NodesOf(domain)
    BY DEF Nodes
  <2>3. \A v \in Nodes : b[v] \in Nat
    BY <2>1, <2>2 DEF DomainType
  <2> QED BY <2>3, Declared
<1> DEFINE n == domain.n
           rank == [v \in Nodes |-> Cardinality(Faster(b, v))]
<1>2. /\ IsFiniteSet(Nodes) /\ Cardinality(Nodes) = n
      /\ IsFiniteSet(0..(n - 1)) /\ Cardinality(0..(n - 1)) = n
  <2>1. 0 \in Int /\ n - 1 \in Int
    BY <1>1
  <2>2. /\ IsFiniteSet(0..(n - 1))
        /\ Cardinality(0..(n - 1)) = IF 0 > n - 1 THEN 0 ELSE (n - 1) - 0 + 1
    BY <2>1, FS_Interval
  <2> QED BY <1>1, <2>2
<1>3. ASSUME NEW u \in Nodes, NEW v \in Nodes, u \in Faster(b, v)
      PROVE  rank[u] < rank[v]
  <2>1. /\ u \in Int /\ v \in Int /\ b[u] \in Int /\ b[v] \in Int
        /\ b[u] < b[v] \/ (b[u] = b[v] /\ u < v)
    BY <1>1, <1>3 DEF Faster
  <2>2. ASSUME NEW w \in Faster(b, u) PROVE w \in Faster(b, v)
    <3>1. /\ w \in Nodes /\ w \in Int /\ b[w] \in Int
          /\ b[w] < b[u] \/ (b[w] = b[u] /\ w < u)
      BY <1>1 DEF Faster
    <3>2. b[w] < b[v] \/ (b[w] = b[v] /\ w < v)
      BY <2>1, <3>1
    <3> QED BY <3>1, <3>2 DEF Faster
  <2>3. u \notin Faster(b, u)
    BY <2>1 DEF Faster
  <2>4. Faster(b, u) \in SUBSET Nodes /\ Faster(b, v) \in SUBSET Nodes
    BY DEF Faster
  <2>5. /\ IsFiniteSet(Faster(b, u)) /\ Cardinality(Faster(b, u)) \in Nat
        /\ IsFiniteSet(Faster(b, v)) /\ Cardinality(Faster(b, v)) \in Nat
    BY <1>1, <2>4, NodesAreFinite
  <2>6. Faster(b, u) \cup {u} \in SUBSET Faster(b, v)
    BY <1>3, <2>2
  <2>7. Cardinality(Faster(b, u) \cup {u}) = Cardinality(Faster(b, u)) + 1
    BY <2>3, <2>5, FS_AddElement
  <2>8. Cardinality(Faster(b, u) \cup {u}) <= Cardinality(Faster(b, v))
    BY <2>5, <2>6, FS_Subset
  <2> QED BY <2>5, <2>7, <2>8
<1>4. ASSUME NEW v \in Nodes PROVE rank[v] \in 0..(n - 1)
  <2>1. v \notin Faster(b, v)
    BY <1>1 DEF Faster
  <2>2. Faster(b, v) \in SUBSET (Nodes \ {v}) /\ Faster(b, v) \in SUBSET Nodes
    BY <2>1 DEF Faster
  <2>3. IsFiniteSet(Nodes \ {v}) /\ Cardinality(Nodes \ {v}) = n - 1
    BY <1>2, FS_RemoveElement
  <2>4. Cardinality(Faster(b, v)) \in Nat /\ Cardinality(Faster(b, v)) <= n - 1
    BY <1>1, <2>2, <2>3, NodesAreFinite, FS_Subset
  <2> QED BY <1>1, <2>4
<1>5. rank \in Injection(Nodes, 0..(n - 1))
  <2>1. ASSUME NEW u \in Nodes, NEW v \in Nodes, u # v PROVE rank[u] # rank[v]
    <3>1. u \in Faster(b, v) \/ v \in Faster(b, u)
      <4>1. u \in Int /\ v \in Int /\ b[u] \in Int /\ b[v] \in Int
        BY <1>1
      <4> QED BY <2>1, <4>1 DEF Faster
    <3>2. rank[u] < rank[v] \/ rank[v] < rank[u]
      BY <1>3, <3>1
    <3>3. rank[u] \in Int /\ rank[v] \in Int
      BY <1>4
    <3> QED BY <3>2, <3>3
  <2>2. rank \in [Nodes -> 0..(n - 1)]
    BY <1>4
  <2> HIDE DEF rank
  <2> QED BY <2>1, <2>2 DEF Injection, IsInjective
<1>6. rank \in Surjection(Nodes, 0..(n - 1))
  BY <1>2, <1>5, FS_Injection
<1> DEFINE C == {v \in Nodes : Cardinality(Faster(b, v)) < c}
           f == [v \in C |-> rank[v]]
<1>7. \A v \in Nodes : v \in C <=> rank[v] < c
  OBVIOUS
<1> HIDE DEF rank, C
<1>8. f \in Bijection(C, 0..(c - 1))
  <2>1. C \subseteq Nodes
    BY DEF C
  <2>2. \A v \in C : f[v] \in 0..(c - 1)
    BY <1>4, <1>7, <2>1
  <2>3. \A u, v \in C : f[u] = f[v] => u = v
    BY <1>5, <2>1 DEF Injection, IsInjective
  <2>4. \A i \in 0..(c - 1) : \E v \in C : f[v] = i
    <3> SUFFICES ASSUME NEW i \in 0..(c - 1) PROVE \E v \in C : f[v] = i
      OBVIOUS
    <3>1. i \in 0..(n - 1) /\ i < c
      BY <1>1
    <3>2. PICK v \in Nodes : rank[v] = i
      BY <1>6, <3>1 DEF Surjection
    <3> QED BY <1>7, <3>1, <3>2
  <2>5. f \in [C -> 0..(c - 1)]
    BY <2>2
  <2> HIDE DEF f
  <2> QED BY <2>3, <2>4, <2>5 DEF Bijection, Injection, IsInjective, Surjection
<1>9. IsFiniteSet(C)
  <2>1. C \in SUBSET Nodes
    BY DEF C
  <2> QED BY <1>1, <2>1, NodesAreFinite
<1>10. Cardinality(0..(c - 1)) = Cardinality(C)
  BY <1>8, <1>9, FS_Bijection DEF ExistsBijection
<1>11. Cardinality(0..(c - 1)) = c
  <2>1. 0 \in Int /\ c - 1 \in Int
    OBVIOUS
  <2>2. Cardinality(0..(c - 1)) = IF 0 > c - 1 THEN 0 ELSE (c - 1) - 0 + 1
    BY <2>1, FS_Interval
  <2> QED BY <2>2
<1> QED BY <1>10, <1>11 DEF C

(* The chords of a ring of two or more are between its nodes, and those of *)
(* its cycle have two ends.                                                *)
LEMMA ChordsOfRing ==
  ASSUME NEW k \in Nat, k > 1, NEW R, NEW ring \in [1..k -> R], Len(ring) = k,
         \A i, j \in 1..k : i # j => ring[i] # ring[j]
  PROVE  /\ \A distance \in Nat, i \in 1..k : Chord(ring, distance, i) \subseteq R
         /\ \A e \in Backbone(ring) : Cardinality(e) = 2
<1>1. ASSUME NEW distance \in Nat, NEW i \in 1..k
      PROVE  1 + ((i + distance - 1) % k) \in 1..k
  <2>1. i + distance - 1 \in Int
    OBVIOUS
  <2> DEFINE a == i + distance - 1
  <2> HIDE DEF a
  <2>2. a % k \in 0..(k - 1)
    BY <2>1 DEF a
  <2> QED BY <2>2 DEF a
<1>2. ASSUME NEW e \in Backbone(ring) PROVE Cardinality(e) = 2
  <2>1. PICK i \in 1..k : e = Chord(ring, 1, i)
    BY DEF Backbone
  <2>2. 1 + ((i + 1 - 1) % k) = IF i < k THEN i + 1 ELSE 1
    <3>1. i + 1 - 1 = i
      OBVIOUS
    <3>2. i % k = IF i < k THEN i ELSE 0
      OBVIOUS
    <3> QED BY <3>1, <3>2
  <2> DEFINE j == 1 + ((i + 1 - 1) % k)
  <2>3. j \in 1..k /\ j # i
    BY <2>2
  <2>4. e = {ring[i], ring[j]}
    BY <2>1 DEF Chord
  <2> HIDE DEF j
  <2> QED BY <2>3, <2>4, PairHasTwo
<1>3. ASSUME NEW distance \in Nat, NEW i \in 1..k PROVE Chord(ring, distance, i) \subseteq R
  <2>1. ring[i] \in R /\ ring[1 + ((i + distance - 1) % k)] \in R
    BY <1>1
  <2> QED BY <2>1 DEF Chord
<1> QED BY <1>2, <1>3

(* The links of a DRS with the rings I and O, whose cycles are B and C:    *)
(* the outer nodes in W have their core links before them, and the inner   *)
(* nodes in L their shortcuts.                                             *)
Shortcuts(v, E, I, B) == {u \in Adjacent(v, E, I) : {u, v} \notin B}

SmallWorld(I, O, B, C, E, b, W, L) ==
  /\ I \in SUBSET Nodes /\ O \in SUBSET Nodes /\ I \cap O = {}
  /\ B \cup C \subseteq E
  /\ \A v \in O : IF v \in W THEN Adjacent(v, E, I) = {}
                             ELSE Cardinality(Adjacent(v, E, I)) = b
  /\ \A v \in I \ L : Cardinality(Shortcuts(v, E, I, B)) >= b

(* More edges leave the shortcuts that were there.                         *)
LEMMA ShortcutsGrow ==
  ASSUME domain.n \in Nat, NEW I \in SUBSET Nodes, NEW E, NEW F, Keeps(E, F, Nodes), NEW B,
         NEW v \in Nodes
  PROVE  /\ Shortcuts(v, E, I, B) \subseteq Shortcuts(v, F, I, B)
         /\ IsFiniteSet(Shortcuts(v, E, I, B)) /\ IsFiniteSet(Shortcuts(v, F, I, B))
         /\ Cardinality(Shortcuts(v, E, I, B)) \in Nat
         /\ Cardinality(Shortcuts(v, F, I, B)) \in Nat
         /\ Cardinality(Shortcuts(v, E, I, B)) <= Cardinality(Shortcuts(v, F, I, B))
<1>1. Shortcuts(v, E, I, B) \subseteq Shortcuts(v, F, I, B)
  BY DEF Shortcuts, Adjacent, Keeps
<1>2. Shortcuts(v, E, I, B) \in SUBSET Nodes /\ Shortcuts(v, F, I, B) \in SUBSET Nodes
  BY DEF Shortcuts, Adjacent
<1>3. /\ IsFiniteSet(Shortcuts(v, E, I, B)) /\ IsFiniteSet(Shortcuts(v, F, I, B))
      /\ Cardinality(Shortcuts(v, E, I, B)) \in Nat
      /\ Cardinality(Shortcuts(v, F, I, B)) \in Nat
  BY <1>2, NodesAreFinite
<1> QED BY <1>1, <1>3, FS_Subset

(* Edges that leave the core links of the outer nodes as they are.         *)
LEMMA SmallWorldGrows ==
  ASSUME domain.n \in Nat, NEW I, NEW O, NEW B, NEW C, NEW E, NEW b \in Nat, NEW W, NEW L,
         SmallWorld(I, O, B, C, E, b, W, L),
         NEW F, B \cup C \subseteq F, Keeps(E, F, Nodes),
         \A v \in O : Adjacent(v, F, I) = Adjacent(v, E, I)
  PROVE  SmallWorld(I, O, B, C, F, b, W, L)
<1>1. ASSUME NEW v \in I \ L PROVE Cardinality(Shortcuts(v, F, I, B)) >= b
  <2>1. I \in SUBSET Nodes /\ v \in Nodes /\ Cardinality(Shortcuts(v, E, I, B)) >= b
    BY DEF SmallWorld
  <2>2. /\ Cardinality(Shortcuts(v, E, I, B)) \in Nat
        /\ Cardinality(Shortcuts(v, F, I, B)) \in Nat
        /\ Cardinality(Shortcuts(v, E, I, B)) <= Cardinality(Shortcuts(v, F, I, B))
    BY <2>1, ShortcutsGrow
  <2> QED BY <2>1, <2>2
<1> QED BY <1>1 DEF SmallWorld

(* An outer node has its turn.                                             *)
LEMMA AccessGiven ==
  ASSUME domain.n \in Nat, NEW I, NEW O, NEW B, NEW C, NEW E, NEW b \in Nat, NEW W,
         SmallWorld(I, O, B, C, E, b, W, I),
         NEW node \in O, node \in W, NEW S \in SUBSET I, Cardinality(S) = b
  PROVE  SmallWorld(I, O, B, C, E \cup {{node, target} : target \in S}, b, W \ {node}, I)
<1> DEFINE F == E \cup {{node, target} : target \in S}
<1>1. I \cap O = {}
  BY DEF SmallWorld
<1>2. ASSUME NEW v \in O, v # node PROVE Adjacent(v, F, I) = Adjacent(v, E, I)
  <2>1. ASSUME NEW u \in I, {u, v} \in F PROVE {u, v} \in E
    <3> SUFFICES ASSUME NEW target \in S, {u, v} = {node, target} PROVE FALSE
      BY <2>1
    <3>1. v = target
      BY <1>2
    <3> QED BY <1>1, <3>1
  <2>2. E \subseteq F
    OBVIOUS
  <2> HIDE DEF F
  <2> QED BY <2>1, <2>2 DEF Adjacent
<1>3. Adjacent(node, F, I) = S
  <2>1. \A u \in I : ~ ({u, node} \in E /\ u # node)
    BY DEF SmallWorld, Adjacent
  <2>2. ASSUME NEW u \in I PROVE u # node /\ ({u, node} \in F <=> u \in S)
    <3>1. u # node
      BY <1>1
    <3>2. {u, node} = {node, u}
      OBVIOUS
    <3>3. ASSUME NEW target \in S, {u, node} = {node, target} PROVE u = target
      BY <3>1, <3>3
    <3> QED BY <2>1, <3>1, <3>2, <3>3
  <2> HIDE DEF F
  <2> QED BY <2>2 DEF Adjacent
<1>4. B \cup C \subseteq F
  BY DEF SmallWorld
<1> HIDE DEF F
<1>5. SmallWorld(I, O, B, C, F, b, W \ {node}, I)
  BY <1>2, <1>3, <1>4 DEF SmallWorld
<1> QED BY <1>5 DEF F

(* An inner node has its turn: it has shortcuts enough, or gets the number *)
(* it lacks, to nodes it has no edge with.                                 *)
LEMMA ShortcutsGiven ==
  ASSUME domain.n \in Nat, NEW I, NEW O, NEW B, NEW C, NEW E, NEW b \in Nat, NEW L,
         SmallWorld(I, O, B, C, E, b, {}, L),
         NEW node \in I,
         NEW S \in SUBSET (I \ ({node} \cup Adjacent(node, E, Nodes))),
         Cardinality(S) = b - Cardinality(Shortcuts(node, E, I, B))
  PROVE  SmallWorld(I, O, B, C, E \cup {{node, target} : target \in S}, b, {}, L \ {node})
<1> DEFINE F == E \cup {{node, target} : target \in S}
<1>1. I \in SUBSET Nodes /\ O \in SUBSET Nodes /\ I \cap O = {} /\ B \subseteq E
  BY DEF SmallWorld
<1>2. E \subseteq F /\ Keeps(E, F, Nodes)
  BY DEF Keeps
<1>3. ASSUME NEW v \in O PROVE Adjacent(v, F, I) = Adjacent(v, E, I)
  <2>1. ASSUME NEW u \in I, {u, v} \in F PROVE {u, v} \in E
    <3> SUFFICES ASSUME NEW target \in S, {u, v} = {node, target} PROVE FALSE
      BY <2>1
    <3>1. v = node \/ v = target
      OBVIOUS
    <3> QED BY <1>1, <3>1
  <2> HIDE DEF F
  <2> QED BY <1>2, <2>1 DEF Adjacent
<1>4. SmallWorld(I, O, B, C, F, b, {}, L)
  <2>1. B \cup C \subseteq F
    BY DEF SmallWorld
  <2> HIDE DEF F
  <2> QED BY <1>2, <1>3, <2>1, SmallWorldGrows
<1>5. S \cap Shortcuts(node, E, I, B) = {}
  BY <1>1 DEF Shortcuts, Adjacent
<1>6. Shortcuts(node, E, I, B) \cup S \in SUBSET Shortcuts(node, F, I, B)
  <2>1. Shortcuts(node, E, I, B) \subseteq Shortcuts(node, F, I, B)
    BY <1>1, <1>2, ShortcutsGrow
  <2>2. ASSUME NEW u \in S PROVE u \in Shortcuts(node, F, I, B)
    <3>1. u \in I /\ u \in Nodes /\ u # node /\ u \notin Adjacent(node, E, Nodes)
      BY <1>1
    <3>2. {u, node} \notin E
      BY <3>1 DEF Adjacent
    <3>3. {u, node} = {node, u}
      OBVIOUS
    <3>4. {u, node} \in F /\ {u, node} \notin B
      BY <1>1, <3>2, <3>3
    <3> HIDE DEF F
    <3> QED BY <3>1, <3>4 DEF Shortcuts, Adjacent
  <2> QED BY <2>1, <2>2
<1>7. /\ IsFiniteSet(Shortcuts(node, E, I, B)) /\ IsFiniteSet(Shortcuts(node, F, I, B))
      /\ Cardinality(Shortcuts(node, E, I, B)) \in Nat
      /\ Cardinality(Shortcuts(node, F, I, B)) \in Nat
  <2> HIDE DEF F
  <2> QED BY <1>1, <1>2, ShortcutsGrow
<1>8. IsFiniteSet(S) /\ Cardinality(S) \in Nat
  <2>1. S \in SUBSET Nodes
    BY <1>1
  <2> QED BY <2>1, NodesAreFinite
<1> HIDE DEF F
<1>9. Cardinality(Shortcuts(node, E, I, B) \cup S) = b
  <2>1. /\ Cardinality(Shortcuts(node, E, I, B) \cup S) =
            Cardinality(Shortcuts(node, E, I, B)) + Cardinality(S)
              - Cardinality(Shortcuts(node, E, I, B) \cap S)
    BY <1>7, <1>8, FS_Union
  <2>2. Shortcuts(node, E, I, B) \cap S = {}
    BY <1>5
  <2>3. Cardinality({}) = 0
    BY FS_EmptySet
  <2>4. Cardinality(Shortcuts(node, E, I, B) \cap S) = 0
    BY <2>2, <2>3
  <2> DEFINE given == Cardinality(Shortcuts(node, E, I, B))
             lacked == Cardinality(S)
  <2>5. given \in Nat /\ lacked \in Nat /\ lacked = b - given
    BY <1>7, <1>8
  <2>6. Cardinality(Shortcuts(node, E, I, B) \cup S) = given + lacked - 0
    BY <2>1, <2>4
  <2> HIDE DEF given, lacked
  <2> QED BY <2>5, <2>6
<1>10. Cardinality(Shortcuts(node, F, I, B)) >= b
  <2>1. Cardinality(Shortcuts(node, E, I, B) \cup S) <= Cardinality(Shortcuts(node, F, I, B))
    BY <1>6, <1>7, FS_Subset
  <2> QED BY <1>7, <1>9, <2>1
<1>11. SmallWorld(I, O, B, C, F, b, {}, L \ {node})
  BY <1>4, <1>10 DEF SmallWorld
<1> QED BY <1>11 DEF F

(* A chord of one of the rings is no core link of an outer node.           *)
LEMMA ChordGiven ==
  ASSUME domain.n \in Nat, NEW I, NEW O, NEW B, NEW C, NEW E, NEW b \in Nat, NEW W, NEW L,
         SmallWorld(I, O, B, C, E, b, W, L),
         NEW e, e \subseteq I \/ e \subseteq O
  PROVE  SmallWorld(I, O, B, C, E \cup {e}, b, W, L)
<1> DEFINE F == E \cup {e}
<1>1. I \cap O = {}
  BY DEF SmallWorld
<1>2. Keeps(E, F, Nodes) /\ B \cup C \subseteq F
  BY DEF Keeps, SmallWorld
<1>3. ASSUME NEW v \in O PROVE Adjacent(v, F, I) = Adjacent(v, E, I)
  <2>1. \A u \in I : {u, v} # e
    BY <1>1
  <2> QED BY <2>1 DEF Adjacent
<1> HIDE DEF F
<1>4. SmallWorld(I, O, B, C, F, b, W, L)
  BY <1>2, <1>3, SmallWorldGrows
<1> QED BY <1>4 DEF F

(* Nor does the normalization change anyone's neighbors.                   *)
LEMMA NormalizedKeeps ==
  ASSUME NEW E, NEW N
  PROVE  \A v \in N : Adjacent(v, {e \in E : Cardinality(e) = 2}, N) = Adjacent(v, E, N)
<1> SUFFICES ASSUME NEW v \in N, NEW u \in N, u # v
             PROVE  Cardinality({u, v}) = 2
  BY DEF Adjacent
<1> QED BY PairHasTwo

(* The invariant of the links: what each phase of a generator has given    *)
(* its nodes so far.                                                       *)
SimpleRing(ring) ==
  /\ Len(ring) \in Nat /\ Len(ring) > 1
  /\ ring \in [1..Len(ring) -> ToSet(ring)]
  /\ \A i, j \in 1..Len(ring) : i # j => ring[i] # ring[j]

Waiting(p, turns) == IF p = "access" THEN turns ELSE {}
Lacking(p, turns, I) == IF p = "access" THEN I ELSE IF p = "shortcuts" THEN turns ELSE {}

DRSLinks(R, p, turns, E, cand) ==
  /\ SimpleRing(R.inner) /\ SimpleRing(R.outer)
  /\ ToSet(R.inner) \cup ToSet(R.outer) = Nodes
  /\ SmallWorld(ToSet(R.inner), ToSet(R.outer), Backbone(R.inner), Backbone(R.outer), E,
                Beta(domain), Waiting(p, turns), Lacking(p, turns, ToSet(R.inner)))
  /\ p = "access" => turns # {} /\ turns \subseteq ToSet(R.outer)
  /\ p = "shortcuts" => turns \subseteq ToSet(R.inner)
  /\ p = "fill" =>
       \A r \in Rings : cand[r] \subseteq (1..(Len(R[r]) - 1)) \X (1..Len(R[r]))

LinkInv ==
  /\ phase = "clique" => /\ baseline \in domain.baselines /\ linkDelay \in domain.linkDelays
                         /\ seeds \subseteq Nodes /\ Cardinality(seeds) <= domain.m
  /\ phase = "declared" => seeds = {}
  /\ phase = "attach" => HaveLinks(Nodes \ todo, edges, Nodes, domain.m)
  /\ phase = "rewire" => \E own : Owns(own, todo, edges)
  /\ phase \in {"access", "shortcuts", "fill"} =>
       DRSLinks(rings, phase, todo, edges, candidates)
  /\ phase = "generated" =>
       /\ domain.model \in {"ba", "ba-opportunistic"} =>
            HaveLinks(Nodes, edges, Nodes, domain.m)
       /\ domain.model = "ws" => HaveLinks(Nodes, edges, Nodes, domain.k \div 2)
       /\ domain.model = "drs" => DRSLinks(rings, phase, todo, edges, candidates)
  /\ EveryNodeAttached

LEMMA LinkInit == Init => LinkInv
BY DEF Init, LinkInv, EveryNodeAttached

(* What a phase needs to have the invariant.                               *)
LEMMA LinkPlain ==
  ASSUME \/ phase' \in {"rejected", "noTargets", "overBudget", "underBudget"}
         \/ /\ phase' = "generated" /\ UNCHANGED domain
            /\ domain.model \notin {"ba", "ba-opportunistic", "ws", "drs"}
  PROVE  LinkInv'
BY DEF LinkInv, EveryNodeAttached

LEMMA LinkAttach ==
  ASSUME UNCHANGED domain, phase' = "attach",
         HaveLinks(Nodes \ todo', edges', Nodes, domain.m)
  PROVE  LinkInv'
<1> Nodes' = Nodes
  BY DEF Nodes
<1> QED BY DEF LinkInv, EveryNodeAttached

LEMMA LinkRewire ==
  ASSUME UNCHANGED domain, phase' = "rewire", NEW own, Owns(own, todo', edges')
  PROVE  LinkInv'
<1> Nodes' = Nodes
  BY DEF Nodes
<1>1. Owns(own, todo, edges)'
  BY DEF Owns, Positions, Lattice
<1> QED BY <1>1 DEF LinkInv, EveryNodeAttached

LEMMA LinkReturned ==
  ASSUME UNCHANGED domain, phase' = "generated",
         \/ /\ domain.model \in {"ba", "ba-opportunistic"}
            /\ HaveLinks(Nodes, edges', Nodes, domain.m)
         \/ /\ domain.model = "ws"
            /\ HaveLinks(Nodes, edges', Nodes, domain.k \div 2)
  PROVE  LinkInv'
<1> Nodes' = Nodes
  BY DEF Nodes
<1> QED BY DEF LinkInv, EveryNodeAttached

LEMMA LinkDRS ==
  ASSUME UNCHANGED domain, domain.model = "drs",
         phase' \in {"access", "shortcuts", "fill", "generated"},
         DRSLinks(rings', phase', todo', edges', candidates')
  PROVE  LinkInv'
<1> Nodes' = Nodes
  BY DEF Nodes
<1>1. DRSLinks(rings, phase, todo, edges, candidates)'
  BY DEF DRSLinks, SmallWorld
<1> QED BY <1>1 DEF LinkInv, EveryNodeAttached

-----------------------------------------------------------------------------
(* Barabasi-Albert.                                                        *)
LEMMA LinkSeeds ==
  GraphInv /\ LinkInv /\ (StartBA \/ StartOpportunistic \/ PickSeed) => LinkInv'
<1> SUFFICES ASSUME GraphInv, LinkInv, StartBA \/ StartOpportunistic \/ PickSeed
             PROVE  LinkInv'
  OBVIOUS
<1> Nodes' = Nodes
  BY DEF Nodes, StartBA, StartOpportunistic, PickSeed
<1>1. /\ UNCHANGED domain /\ domain \in Domains /\ ~Rejected(domain)
      /\ domain.model \in {"ba", "ba-opportunistic"}
  BY DEF GraphInv, PhaseFits, StartBA, StartOpportunistic, PickSeed, Accept
<1>2. /\ domain.n \in Nat /\ Nodes = 0..(domain.n - 1) /\ domain.m \in Nat
      /\ domain.m > 0 /\ domain.m < domain.n
  BY <1>1, Declared, NotRejected DEF BARejected
<1>3. ASSUME NEW T \in SUBSET Nodes, Cardinality(T) > domain.m, phase' = "attach",
             edges' = Clique(T), todo' = Nodes \ T
      PROVE  LinkInv'
  <2>1. HaveLinks(T, Clique(T), Nodes, domain.m)
    BY <1>2, <1>3, CliqueHasLinks
  <2>2. Nodes \ todo' = T
    BY <1>3
  <2> QED BY <1>1, <1>3, <2>1, <2>2, LinkAttach
<1>4. CASE StartBA
  <2>1. 0..domain.m \in SUBSET Nodes
    BY <1>2
  <2>2. Cardinality(0..domain.m) > domain.m
    <3>1. 0 \in Int /\ domain.m \in Int
      BY <1>2
    <3>2. Cardinality(0..domain.m) = IF 0 > domain.m THEN 0 ELSE domain.m - 0 + 1
      BY <3>1, FS_Interval
    <3> QED BY <1>2, <3>2
  <2>3. phase' = "attach" /\ edges' = Clique(0..domain.m) /\ todo' = Nodes \ (0..domain.m)
    BY <1>4 DEF StartBA
  <2> QED BY <1>3, <2>1, <2>2, <2>3
<1>5. CASE StartOpportunistic
  <2>1. /\ phase' = "clique" /\ UNCHANGED seeds /\ seeds = {}
        /\ baseline' \in domain.baselines /\ linkDelay' \in domain.linkDelays
    BY <1>5 DEF StartOpportunistic, ResolveBaselines, DrawLinkDelays, Accept, LinkInv
  <2>2. Cardinality({}) = 0
    BY FS_EmptySet
  <2>3. Cardinality(seeds') <= domain.m
    BY <1>2, <2>1, <2>2
  <2> QED BY <1>1, <2>1, <2>3 DEF LinkInv, EveryNodeAttached
<1>6. CASE PickSeed
  <2>1. /\ phase = "clique" /\ seeds' = seeds \cup {BestSeed}
        /\ UNCHANGED <<baseline, linkDelay>>
        /\ baseline \in domain.baselines /\ linkDelay \in domain.linkDelays
        /\ seeds \in SUBSET Nodes /\ Cardinality(seeds) <= domain.m
    BY <1>6 DEF PickSeed, LinkInv
  <2>2. IsFiniteSet(seeds) /\ Cardinality(seeds) \in Nat
    BY <1>2, <2>1, NodesAreFinite
  <2>3. Nodes \ seeds # {}
    <3> SUFFICES ASSUME Nodes \subseteq seeds PROVE FALSE
      OBVIOUS
    <3>1. seeds = 0..(domain.n - 1)
      BY <1>2, <2>1
    <3>2. 0 \in Int /\ domain.n - 1 \in Int
      BY <1>2
    <3>3. Cardinality(seeds) = IF 0 > domain.n - 1 THEN 0 ELSE (domain.n - 1) - 0 + 1
      BY <3>1, <3>2, FS_Interval
    <3> QED BY <1>2, <2>1, <3>3
  <2>4. BestSeed \in Nodes \ seeds
    BY <1>1, <2>1, <2>3, BestSeedIsNode
  <2>5. seeds' \in SUBSET Nodes
    BY <2>1, <2>4
  <2>6. Cardinality(seeds') \in Nat
    BY <1>2, <2>5, NodesAreFinite
  <2>7. CASE Cardinality(seeds') > domain.m
    <3>1. edges' = Clique(seeds') /\ todo' = Nodes \ seeds' /\ phase' = "attach"
      BY <1>6, <2>7 DEF PickSeed
    <3> QED BY <1>3, <2>5, <2>7, <3>1
  <2>8. CASE ~ (Cardinality(seeds') > domain.m)
    <3>1. phase' = "clique" /\ Cardinality(seeds') <= domain.m
      BY <1>2, <1>6, <2>1, <2>6, <2>8 DEF PickSeed
    <3> QED BY <1>1, <2>1, <2>5, <3>1 DEF LinkInv, EveryNodeAttached
  <2> QED BY <2>7, <2>8
<1> QED BY <1>4, <1>5, <1>6

LEMMA LinkAttaches == GraphInv /\ LinkInv /\ (Attach \/ Attached) => LinkInv'
<1> SUFFICES ASSUME GraphInv, LinkInv, Attach \/ Attached PROVE LinkInv'
  OBVIOUS
<1>1. /\ UNCHANGED domain /\ ~Rejected(domain) /\ phase = "attach"
      /\ domain \in Domains /\ domain.model \in {"ba", "ba-opportunistic"}
      /\ todo \subseteq Nodes /\ HaveLinks(Nodes \ todo, edges, Nodes, domain.m)
  BY DEF Attach, Attached, GraphInv, LinkInv, PhaseFits
<1>2. domain.n \in Nat /\ domain.m \in Int /\ Nodes \subseteq Nat
  BY <1>1, Declared
<1>3. CASE Attach
  <2> DEFINE node == FirstOf(todo)
             before == Nodes \ todo
  <2>1. node \in todo
    BY <1>1, <1>2, <1>3, FirstIsMember DEF Attach
  <2> HIDE DEF node
  <2>2. PICK S \in Targets(before, domain.m) :
          edges' = edges \cup {{node, target} : target \in S}
    BY <1>3 DEF Attach, node
  <2>3. S \in SUBSET before /\ Cardinality(S) = domain.m
    BY <2>2 DEF Targets, Subsets
  <2>4. node \in Nodes \ before /\ before \in SUBSET Nodes
    BY <1>1, <2>1
  <2>5. HaveLinks(before \cup {node}, edges', Nodes, domain.m)
    <3> HIDE DEF before
    <3>1. HaveLinks(before, edges, Nodes, domain.m)
      BY <1>1 DEF before
    <3> QED BY <1>2, <2>2, <2>3, <2>4, <3>1, JoiningHasLinks
  <2>6. todo' = todo \ {node} /\ phase' = "attach"
    BY <1>1, <1>3 DEF Attach, node
  <2>7. Nodes \ todo' = before \cup {node}
    BY <1>1, <2>1, <2>6
  <2> QED BY <1>1, <2>5, <2>6, <2>7, LinkAttach
<1>4. CASE Attached
  <2>1. todo = {} /\ edges' = edges /\ phase' = "generated"
    BY <1>4 DEF Attached, Return
  <2>2. Nodes \ todo = Nodes
    BY <2>1
  <2> QED BY <1>1, <2>1, <2>2, LinkReturned
<1> QED BY <1>3, <1>4

(* Watts-Strogatz.                                                         *)
LEMMA LinkWS == GraphInv /\ LinkInv /\ (StartWS \/ Rewire \/ Rewired) => LinkInv'
<1> SUFFICES ASSUME GraphInv, LinkInv, StartWS \/ Rewire \/ Rewired PROVE LinkInv'
  OBVIOUS
<1>1. /\ UNCHANGED domain /\ ~Rejected(domain) /\ domain.model = "ws"
      /\ domain \in Domains
      /\ domain.n \in Nat /\ domain.k \in Int /\ Nodes = 0..(domain.n - 1)
  BY Declared DEF StartWS, Rewire, Rewired, Accept, GraphInv, PhaseFits
<1>2. CASE StartWS
  <2> DEFINE own == [x \in Positions |-> Lattice(x)]
             E == {{i, (i + distance) % domain.n} :
                     i \in Nodes, distance \in 1..(domain.k \div 2)}
  <2>1. edges' = E /\ todo' = Positions /\ phase' = "rewire"
    BY <1>2 DEF StartWS, Positions
  <2>2. Owns(own, Positions, E)
    BY <1>1, LatticeIsOwned
  <2> HIDE DEF own, E
  <2>3. Owns(own, todo', edges')
    BY <2>1, <2>2
  <2> QED BY <1>1, <2>1, <2>3, LinkRewire
<1>3. CASE Rewire
  <2> DEFINE x == FirstPair(todo)
  <2>1. /\ phase = "rewire" /\ phase' = "rewire" /\ todo # {} /\ todo' = todo \ {x}
    BY <1>3 DEF Rewire
  <2>2. PICK own : Owns(own, todo, edges)
    BY <2>1 DEF LinkInv
  <2>3. x \in todo
    <3>1. todo \subseteq Nat \X Nat
      BY <1>1, <2>1 DEF GraphInv
    <3> QED BY <2>1, <3>1, FirstPairIsMember
  <2> HIDE DEF x
  <2>4. CASE UNCHANGED edges
    <3>1. Owns(own, todo', edges')
      BY <2>1, <2>2, <2>4 DEF Owns
    <3> QED BY <1>1, <2>1, <3>1, LinkRewire
  <2>5. CASE ~UNCHANGED edges
    <3>1. PICK target \in RewireTargets(x[1]) :
            edges' = (edges \ {Lattice(x)}) \cup {{x[1], target}}
      BY <1>3, <2>5 DEF Rewire, Lattice, x
    <3>2. /\ target \in Nodes /\ target # x[1]
          /\ ~ ({target, x[1]} \in edges /\ target # x[1])
      BY DEF RewireTargets, Neighbors
    <3>3. {x[1], target} = {target, x[1]}
      OBVIOUS
    <3>4. {x[1], target} \notin edges
      BY <3>2, <3>3
    <3>5. Owns([own EXCEPT ![x] = {x[1], target}], todo \ {x},
               (edges \ {Lattice(x)}) \cup {{x[1], target}})
      BY <2>2, <2>3, <3>2, <3>4, OwnedEdgeMoves
    <3>6. Owns([own EXCEPT ![x] = {x[1], target}], todo', edges')
      BY <2>1, <3>1, <3>5
    <3> QED BY <1>1, <2>1, <3>6, LinkRewire
  <2> QED BY <2>4, <2>5
<1>4. CASE Rewired
  <2>1. phase = "rewire" /\ edges' = edges /\ phase' = "generated"
    BY <1>4 DEF Rewired, Return
  <2>2. PICK own : Owns(own, todo, edges)
    BY <2>1 DEF LinkInv
  <2>3. HaveLinks(Nodes, edges, Nodes, domain.k \div 2)
    BY <1>1, <2>2, OwnersHaveLinks
  <2> QED BY <1>1, <2>1, <2>3, LinkReturned
<1> QED BY <1>2, <1>3, <1>4

(* Double-ring small world.                                                *)
LEMMA BetaIsNatural ==
  ASSUME domain \in Domains, ~Rejected(domain), domain.model = "drs"
  PROVE  Beta(domain) \in Nat
<1>1. domain.beta \in Int /\ domain.beta > 0
  BY Declared, NotRejected DEF DRSRejected
<1> QED BY <1>1 DEF Beta

(* The two rings of a DRS that is accepted: enough for a cycle each.       *)
LEMMA RingsHaveSizes ==
  ASSUME domain \in Domains, ~Rejected(domain), domain.model = "drs",
         NEW b \in domain.baselines
  PROVE  /\ CoreCount(domain) \in Nat /\ CoreCount(domain) >= 4
         /\ domain.n - CoreCount(domain) >= 3
         /\ Cardinality(Core(b)) = CoreCount(domain)
         /\ Cardinality(Nodes \ Core(b)) = domain.n - CoreCount(domain)
<1> DEFINE core == Core(b)
           c == CoreCount(domain)
<1>1. domain.n \in Nat /\ Nodes = 0..(domain.n - 1) /\ domain.alpha \in Int
  BY Declared
<1>2. c \in Nat /\ c >= 4 /\ domain.n - c >= 3
  <2>1. Alpha(domain) \in Int
    BY <1>1 DEF Alpha
  <2>2. c \in Int
    BY <1>1, <2>1 DEF CoreCount
  <2>3. ~ (c < 4 \/ domain.n - c < 3)
    BY NotRejected DEF DRSRejected
  <2> HIDE DEF c
  <2> QED BY <1>1, <2>2, <2>3
<1>3. core = {v \in Nodes : Cardinality(Faster(b, v)) < c}
  BY DEF Core, Faster
<1> HIDE DEF core, c
<1>4. Cardinality(core) = c
  BY <1>1, <1>2, <1>3, CoreHasItsSize
<1>5. Cardinality(Nodes) = domain.n /\ IsFiniteSet(Nodes)
  <2>1. 0 \in Int /\ domain.n - 1 \in Int
    BY <1>1
  <2>2. Cardinality(Nodes) = IF 0 > domain.n - 1 THEN 0 ELSE (domain.n - 1) - 0 + 1
    BY <1>1, <2>1, FS_Interval
  <2>3. IsFiniteSet(Nodes)
    BY <1>1, NodesAreFinite
  <2> QED BY <1>1, <2>2, <2>3
<1>6. Nodes \cap core = core
  BY <1>3
<1>7. Cardinality(Nodes \ core) = Cardinality(Nodes) - Cardinality(Nodes \cap core)
  BY <1>5, FS_Difference
<1> QED BY <1>2, <1>4, <1>5, <1>6, <1>7 DEF core, c

LEMMA LinkDRSStarts == GraphInv /\ StartDRS => LinkInv'
<1> SUFFICES ASSUME GraphInv, StartDRS PROVE LinkInv'
  OBVIOUS
<1>1. /\ UNCHANGED domain /\ ~Rejected(domain) /\ domain.model = "drs" /\ domain \in Domains
      /\ domain.n \in Nat /\ Nodes = 0..(domain.n - 1) /\ domain.alpha \in Int
      /\ phase' = "access"
  BY Declared DEF StartDRS, Accept, GraphInv
<1> DEFINE core == Core(baseline')
           outer == Nodes \ core
           B == Backbone(Sorted(core))
           C == Backbone(Sorted(outer))
           E == B \cup C
<1>2. core \in SUBSET Nodes /\ outer \in SUBSET Nodes /\ core \cup outer = Nodes
      /\ core \cap outer = {}
  BY DEF Core
<1>3. /\ rings'.inner = Sorted(core) /\ rings'.outer = Sorted(outer)
      /\ edges' = E /\ todo' = outer
  BY DEF StartDRS
<1>4. Cardinality(core) > 1 /\ Cardinality(outer) > 1
  <2>1. baseline' \in domain.baselines
    BY DEF StartDRS, ResolveBaselines
  <2>2. /\ CoreCount(domain) \in Nat /\ CoreCount(domain) >= 4
        /\ domain.n - CoreCount(domain) >= 3
        /\ Cardinality(core) = CoreCount(domain)
        /\ Cardinality(outer) = domain.n - CoreCount(domain)
    BY <1>1, <2>1, RingsHaveSizes
  <2> HIDE DEF core, outer
  <2> QED BY <1>1, <2>2
<1> HIDE DEF core, outer
<1>5. ASSUME NEW S \in SUBSET Nodes, Cardinality(S) > 1
      PROVE  SimpleRing(Sorted(S)) /\ ToSet(Sorted(S)) = S
  <2>1. /\ Cardinality(S) \in Nat
        /\ Sorted(S) \in [1..Cardinality(S) -> S] /\ ToSet(Sorted(S)) = S
        /\ \A i, j \in 1..Cardinality(S) : i # j => Sorted(S)[i] # Sorted(S)[j]
    BY <1>1, SortedIs
  <2>2. Len(Sorted(S)) = Cardinality(S)
    BY <2>1
  <2> QED BY <1>5, <2>1, <2>2 DEF SimpleRing
<1>6. /\ SimpleRing(rings'.inner) /\ SimpleRing(rings'.outer)
      /\ ToSet(rings'.inner) = core /\ ToSet(rings'.outer) = outer
  BY <1>2, <1>3, <1>4, <1>5
<1>7. ASSUME NEW v \in outer PROVE Adjacent(v, E, core) = {}
  <2> SUFFICES ASSUME NEW u \in core, {u, v} \in E PROVE FALSE
    BY DEF Adjacent
  <2>1. ASSUME NEW S \in SUBSET Nodes, Cardinality(S) > 1, NEW e \in Backbone(Sorted(S))
        PROVE  e \subseteq S
    <3>0. /\ Cardinality(S) \in Nat
          /\ Sorted(S) \in [1..Cardinality(S) -> S]
          /\ \A i, j \in 1..Cardinality(S) : i # j => Sorted(S)[i] # Sorted(S)[j]
      BY <1>1, SortedIs
    <3>1. Len(Sorted(S)) = Cardinality(S)
      BY <3>0
    <3>2. PICK i \in 1..Cardinality(S) : e = Chord(Sorted(S), 1, i)
      BY <3>1 DEF Backbone
    <3>3. \A distance \in Nat, j \in 1..Cardinality(S) : Chord(Sorted(S), distance, j) \subseteq S
      BY <2>1, <3>0, <3>1, ChordsOfRing
    <3> QED BY <3>2, <3>3
  <2>2. CASE {u, v} \in B
    <3>1. {u, v} \subseteq core
      BY <1>2, <1>4, <2>1, <2>2
    <3> QED BY <1>2, <3>1
  <2>3. CASE {u, v} \in C
    <3>1. {u, v} \subseteq outer
      BY <1>2, <1>4, <2>1, <2>3
    <3> QED BY <1>2, <3>1
  <2> QED BY <2>2, <2>3
<1>8. SmallWorld(core, outer, B, C, E, Beta(domain), outer, core)
  <2> HIDE DEF B, C
  <2> QED BY <1>2, <1>7 DEF SmallWorld
<1>9. outer # {}
  <2>1. Cardinality({}) = 0
    BY FS_EmptySet
  <2> QED BY <1>4, <2>1
<1>10. DRSLinks(rings', phase', todo', edges', candidates')
  BY <1>1, <1>2, <1>3, <1>6, <1>8, <1>9 DEF DRSLinks, Waiting, Lacking
<1> QED BY <1>1, <1>10, LinkDRS

LEMMA LinkAccess == GraphInv /\ LinkInv /\ AddAccess => LinkInv'
<1> SUFFICES ASSUME GraphInv, LinkInv, AddAccess PROVE LinkInv'
  OBVIOUS
<1> DEFINE I == ToSet(rings.inner)
           O == ToSet(rings.outer)
           B == Backbone(rings.inner)
           C == Backbone(rings.outer)
           node == FirstOf(todo)
<1>1. /\ UNCHANGED <<domain, rings>> /\ ~Rejected(domain) /\ domain.model = "drs"
      /\ domain \in Domains /\ domain.n \in Nat /\ Nodes \subseteq Nat /\ phase = "access"
  BY Declared DEF AddAccess, GraphInv, PhaseFits, drsVars
<1>2. Beta(domain) \in Nat
  BY <1>1, BetaIsNatural
<1>3. DRSLinks(rings, "access", todo, edges, candidates)
  BY <1>1 DEF LinkInv
<1>4. /\ SmallWorld(I, O, B, C, edges, Beta(domain), todo, I)
      /\ todo # {} /\ todo \subseteq O /\ O \subseteq Nodes
  BY <1>3 DEF DRSLinks, Waiting, Lacking
<1>5. node \in todo /\ node \in O
  <2>1. todo \subseteq Nat
    BY <1>1, <1>4
  <2> QED BY <1>4, <2>1, FirstIsMember
<1>6. /\ \E S \in Subsets(I, Beta(domain)) :
           edges' = edges \cup {{node, target} : target \in S}
      /\ todo' = IF todo = {node} THEN I ELSE todo \ {node}
      /\ phase' = IF todo = {node} THEN "shortcuts" ELSE phase
  BY DEF AddAccess
<1> HIDE DEF node
<1>7. SmallWorld(I, O, B, C, edges', Beta(domain), todo \ {node}, I)
  <2>1. PICK S \in Subsets(I, Beta(domain)) :
          edges' = edges \cup {{node, target} : target \in S}
    BY <1>6
  <2>2. S \in SUBSET I /\ Cardinality(S) = Beta(domain)
    BY <2>1 DEF Subsets
  <2> HIDE DEF I, O, B, C
  <2> QED BY <1>1, <1>2, <1>4, <1>5, <2>1, <2>2, AccessGiven
<1>8. CASE todo = {node}
  <2>1. todo' = I /\ phase' = "shortcuts" /\ todo \ {node} = {}
    BY <1>6, <1>8
  <2>2. DRSLinks(rings', phase', todo', edges', candidates')
    BY <1>1, <1>3, <1>7, <2>1 DEF DRSLinks, Waiting, Lacking
  <2> QED BY <1>1, <2>1, <2>2, LinkDRS
<1>9. CASE todo # {node}
  <2>1. todo' = todo \ {node} /\ phase' = "access" /\ todo' # {} /\ todo' \subseteq O
    BY <1>1, <1>4, <1>5, <1>6, <1>9
  <2>2. DRSLinks(rings', phase', todo', edges', candidates')
    BY <1>1, <1>3, <1>7, <2>1 DEF DRSLinks, Waiting, Lacking
  <2> QED BY <1>1, <2>1, <2>2, LinkDRS
<1> QED BY <1>8, <1>9

LEMMA LinkShortcuts == GraphInv /\ LinkInv /\ AddShortcuts => LinkInv'
<1> SUFFICES ASSUME GraphInv, LinkInv, AddShortcuts PROVE LinkInv'
  OBVIOUS
<1> DEFINE I == ToSet(rings.inner)
           O == ToSet(rings.outer)
           B == Backbone(rings.inner)
           C == Backbone(rings.outer)
<1>1. /\ UNCHANGED <<domain, rings>> /\ ~Rejected(domain) /\ domain.model = "drs"
      /\ domain \in Domains /\ domain.n \in Nat /\ phase = "shortcuts"
  BY Declared DEF AddShortcuts, GraphInv, PhaseFits, drsVars
<1>2. Beta(domain) \in Nat
  BY <1>1, BetaIsNatural
<1>3. DRSLinks(rings, "shortcuts", todo, edges, candidates)
  BY <1>1 DEF LinkInv
<1>4. /\ SmallWorld(I, O, B, C, edges, Beta(domain), {}, todo)
      /\ todo \subseteq I /\ I \in SUBSET Nodes
  BY <1>3 DEF DRSLinks, Waiting, Lacking, SmallWorld
<1>5. PICK node \in todo :
        IF Need(node) > Cardinality(ShortcutTargets(node))
        THEN phase' = "noTargets" /\ UNCHANGED <<edges, todo>>
        ELSE /\ IF Need(node) <= 0 THEN edges' = edges
                ELSE \E S \in Subsets(ShortcutTargets(node), Need(node)) :
                       edges' = edges \cup {{node, target} : target \in S}
             /\ todo' = todo \ {node}
             /\ UNCHANGED phase
  BY DEF AddShortcuts
<1> DEFINE has == Cardinality(Shortcuts(node, edges, I, B))
<1>6. node \in I /\ node \in Nodes
  BY <1>4
<1>7. has \in Nat
  <2>1. Shortcuts(node, edges, I, B) \in SUBSET Nodes
    BY <1>4 DEF Shortcuts, Adjacent
  <2> QED BY <1>1, <2>1, NodesAreFinite
<1>8. Need(node) = Beta(domain) - has
  <2>1. Neighbors(node) \cap I = Adjacent(node, edges, I)
    BY <1>4 DEF Neighbors, Adjacent
  <2>2. InnerShortcuts(node) = Shortcuts(node, edges, I, B)
    BY <2>1 DEF InnerShortcuts, Shortcuts
  <2> QED BY <2>2 DEF Need
<1>9. ShortcutTargets(node) = I \ ({node} \cup Adjacent(node, edges, Nodes))
  BY NeighborsAreAdjacent DEF ShortcutTargets
<1>10. CASE phase' = "noTargets"
  BY <1>10, LinkPlain
<1>11. CASE phase' = "shortcuts" /\ todo' = todo \ {node}
  <2>1. SmallWorld(I, O, B, C, edges', Beta(domain), {}, todo')
    <3>1. CASE Need(node) <= 0
      <4>1. edges' = edges
        BY <1>1, <1>5, <1>11, <3>1
      <4>2. has >= Beta(domain)
        BY <1>2, <1>7, <1>8, <3>1
      <4> HIDE DEF I, O, B, C
      <4> QED BY <1>4, <1>11, <4>1, <4>2 DEF SmallWorld
    <3>2. CASE ~ (Need(node) <= 0)
      <4>1. PICK S \in Subsets(ShortcutTargets(node), Need(node)) :
              edges' = edges \cup {{node, target} : target \in S}
        BY <1>1, <1>5, <1>11, <3>2
      <4>2. /\ S \in SUBSET (I \ ({node} \cup Adjacent(node, edges, Nodes)))
            /\ Cardinality(S) = Beta(domain) - has
        BY <1>8, <1>9, <4>1 DEF Subsets
      <4> HIDE DEF I, O, B, C
      <4> QED BY <1>1, <1>2, <1>4, <1>6, <1>11, <4>1, <4>2, ShortcutsGiven
    <3> QED BY <3>1, <3>2
  <2>2. todo' \subseteq I
    BY <1>4, <1>11
  <2>3. DRSLinks(rings', phase', todo', edges', candidates')
    BY <1>1, <1>3, <1>11, <2>1, <2>2 DEF DRSLinks, Waiting, Lacking
  <2> QED BY <1>1, <1>11, <2>3, LinkDRS
<1> QED BY <1>1, <1>5, <1>10, <1>11

(* The candidates of a ring are chords of it.                              *)
LEMMA LinkFill == GraphInv /\ LinkInv /\ (PlanFill \/ Fill \/ Filled) => LinkInv'
<1> SUFFICES ASSUME GraphInv, LinkInv, PlanFill \/ Fill \/ Filled PROVE LinkInv'
  OBVIOUS
<1>1. /\ UNCHANGED <<domain, rings>> /\ ~Rejected(domain) /\ domain.model = "drs"
      /\ domain \in Domains /\ domain.n \in Nat
  BY Declared DEF PlanFill, Fill, Filled, GraphInv, PhaseFits, drsVars
<1>2. Beta(domain) \in Nat
  BY <1>1, BetaIsNatural
<1>3. CASE PlanFill
  <2>1. /\ phase = "shortcuts" /\ todo = {} /\ UNCHANGED <<edges, todo>>
        /\ \/ phase' = "overBudget"
           \/ /\ candidates' = [r \in Rings |-> RingCandidates(rings[r], edges)]
              /\ phase' = "fill"
    BY <1>3 DEF PlanFill
  <2>2. DRSLinks(rings, "shortcuts", {}, edges, candidates)
    BY <2>1 DEF LinkInv
  <2>3. CASE phase' = "fill"
    <3>1. \A r \in Rings :
            candidates'[r] \subseteq (1..(Len(rings[r]) - 1)) \X (1..Len(rings[r]))
      <4> SUFFICES ASSUME NEW r \in Rings
                   PROVE  RingCandidates(rings[r], edges)
                            \subseteq (1..(Len(rings[r]) - 1)) \X (1..Len(rings[r]))
        BY <2>1, <2>3
      <4>1. Len(rings[r]) \in Nat /\ Len(rings[r]) > 1
        BY <2>2 DEF DRSLinks, SimpleRing, Rings
      <4>2. \A distance \in 2..(Len(rings[r]) \div 2) : distance \in 1..(Len(rings[r]) - 1)
        <5> DEFINE half == Len(rings[r]) \div 2
        <5>1. half \in Int /\ half <= Len(rings[r]) - 1
          <6> DEFINE k == Len(rings[r])
          <6>1. k \in Nat /\ k > 1
            BY <4>1
          <6> HIDE DEF k
          <6>2. k \div 2 \in Int /\ k \div 2 <= k - 1
            BY <6>1
          <6> QED BY <6>2 DEF k
        <5> HIDE DEF half
        <5>2. \A distance \in 2..half : distance \in 1..(Len(rings[r]) - 1)
          BY <4>1, <5>1
        <5> QED BY <5>2 DEF half
      <4> QED BY <4>2 DEF RingCandidates
    <3>2. DRSLinks(rings', phase', todo', edges', candidates')
      BY <1>1, <2>1, <2>2, <2>3, <3>1 DEF DRSLinks, Waiting, Lacking
    <3> QED BY <1>1, <2>3, <3>2, LinkDRS
  <2> QED BY <2>1, <2>3, LinkPlain
<1>4. CASE Fill
  <2> DEFINE r == NextRing
             x == FirstPair(candidates[r])
             chord == Chord(rings[r], x[1], x[2])
  <2>1. /\ phase = "fill" /\ UNCHANGED <<phase, todo>>
        /\ Available("inner") \/ Available("outer")
        /\ candidates' = [candidates EXCEPT ![r] = @ \ {x}]
        /\ edges' = edges \/ edges' = edges \cup {chord}
    BY <1>4 DEF Fill
  <2>2. r \in Rings /\ candidates[r] # {}
    BY <2>1 DEF NextRing, Available, Rings
  <2>3. DRSLinks(rings, "fill", todo, edges, candidates)
    BY <2>1 DEF LinkInv
  <2>4. /\ SimpleRing(rings[r]) /\ candidates[r] \subseteq (1..(Len(rings[r]) - 1)) \X (1..Len(rings[r]))
        /\ rings[r] = rings.inner \/ rings[r] = rings.outer
    BY <2>2, <2>3 DEF DRSLinks, Rings
  <2>5. x \in (1..(Len(rings[r]) - 1)) \X (1..Len(rings[r]))
    <3>1. Len(rings[r]) \in Nat
      BY <2>4 DEF SimpleRing
    <3>2. candidates[r] \subseteq Nat \X Nat
      BY <2>4, <3>1
    <3>3. x \in candidates[r]
      BY <2>2, <3>2, FirstPairIsMember
    <3> QED BY <2>4, <3>3
  <2> HIDE DEF r, x
  <2>6. chord \subseteq ToSet(rings[r])
    <3>1. \A distance \in Nat, i \in 1..Len(rings[r]) :
            Chord(rings[r], distance, i) \subseteq ToSet(rings[r])
      BY <2>4, ChordsOfRing DEF SimpleRing
    <3>2. Len(rings[r]) \in Nat
      BY <2>4 DEF SimpleRing
    <3> QED BY <2>5, <3>1, <3>2
  <2>7. SmallWorld(ToSet(rings.inner), ToSet(rings.outer), Backbone(rings.inner),
                   Backbone(rings.outer), edges, Beta(domain), {}, {})
    BY <2>3 DEF DRSLinks, Waiting, Lacking
  <2> HIDE DEF chord
  <2>8. SmallWorld(ToSet(rings.inner), ToSet(rings.outer), Backbone(rings.inner),
                   Backbone(rings.outer), edges', Beta(domain), {}, {})
    <3>1. CASE edges' = edges
      BY <2>7, <3>1
    <3>2. CASE edges' = edges \cup {chord}
      BY <1>1, <1>2, <2>4, <2>6, <2>7, <3>2, ChordGiven
    <3> QED BY <2>1, <3>1, <3>2
  <2>9. \A q \in Rings : candidates'[q] \subseteq (1..(Len(rings[q]) - 1)) \X (1..Len(rings[q]))
    <3>1. \A q \in Rings : candidates[q] \subseteq (1..(Len(rings[q]) - 1)) \X (1..Len(rings[q]))
      BY <2>3 DEF DRSLinks
    <3>2. \A q \in Rings : candidates'[q] = candidates[q] \/ candidates'[q] = candidates[q] \ {x}
                           \/ candidates'[q] \subseteq candidates[q]
      BY <2>1
    <3> QED BY <3>1, <3>2
  <2>10. DRSLinks(rings', phase', todo', edges', candidates')
    BY <1>1, <2>1, <2>3, <2>8, <2>9 DEF DRSLinks, Waiting, Lacking
  <2> QED BY <1>1, <2>1, <2>10, LinkDRS
<1>5. CASE Filled
  <2>1. /\ phase = "fill" /\ UNCHANGED <<todo, candidates>>
        /\ \/ edges' = edges /\ phase' = "generated"
           \/ phase' = "underBudget"
    BY <1>5 DEF Filled, Return, drsVars
  <2>2. DRSLinks(rings, "fill", todo, edges, candidates)
    BY <2>1 DEF LinkInv
  <2>3. CASE edges' = edges /\ phase' = "generated"
    <3>1. DRSLinks(rings', phase', todo', edges', candidates')
      BY <1>1, <2>1, <2>2, <2>3 DEF DRSLinks, Waiting, Lacking
    <3> QED BY <1>1, <2>3, <3>1, LinkDRS
  <2> QED BY <2>1, <2>3, LinkPlain
<1> QED BY <1>3, <1>4, <1>5

(* The end: no link is lost, and a DRS gets none, for it is in one part.   *)
LEMMA JoinedIsOnePart ==
  ASSUME NEW E, Joined(Nodes, E)
  PROVE  ~ (Cardinality(Components(E)) > 1)
<1>1. Components(E) \subseteq {Nodes}
  <2> SUFFICES ASSUME NEW S \in Components(E) PROVE S = Nodes
    OBVIOUS
  <2>1. S \in SUBSET Nodes /\ S # {} /\ Closed(S, E)
    BY DEF Components
  <2>2. Sealed(S, Nodes, E)
    <3> SUFFICES ASSUME NEW u \in S, NEW v \in Nodes, {u, v} \in E PROVE v \in S
      BY DEF Sealed
    <3>1. {u, v} \cap S # {}
      OBVIOUS
    <3>2. {u, v} \subseteq S
      BY <2>1, <3>1 DEF Closed
    <3> QED BY <3>2
  <2> QED BY <2>1, <2>2 DEF Joined
<1>2. IsFiniteSet({Nodes}) /\ Cardinality({Nodes}) = 1
  BY FS_Singleton
<1>3. IsFiniteSet(Components(E)) /\ Cardinality(Components(E)) <= 1
  BY <1>1, <1>2, FS_Subset
<1>4. Cardinality(Components(E)) \in Nat
  BY <1>3, FS_CardinalityType
<1> QED BY <1>3, <1>4

LEMMA LinkFinish == GraphInv /\ LinkInv /\ Finish => LinkInv'
<1> SUFFICES ASSUME GraphInv, LinkInv, Finish PROVE LinkInv'
  OBVIOUS
<1> Nodes' = Nodes
  BY DEF Nodes, Finish
<1>1. /\ UNCHANGED <<domain, rings>> /\ ~Rejected(domain) /\ domain \in Domains
      /\ phase = "generated" /\ phase' = "done" /\ domain.n \in Nat
      /\ domain.m \in Int /\ domain.k \in Int
  BY Declared DEF Finish, GraphInv, drsVars
<1> DEFINE normal == {e \in edges : Cardinality(e) = 2}
           repaired == domain.ensureConnected /\ Cardinality(Components(edges)) > 1
<1>2. \/ repaired /\ edges \subseteq edges'
      \/ ~repaired /\ edges' = normal
  BY DEF Finish
<1>3. Keeps(edges, edges', Nodes)
  <2>1. CASE edges \subseteq edges'
    BY <2>1 DEF Keeps
  <2>2. CASE edges' = normal
    BY <2>2, PairHasTwo DEF Keeps
  <2> QED BY <1>2, <2>1, <2>2
<1>4. ASSUME NEW m \in Int, HaveLinks(Nodes, edges, Nodes, m), NEW v \in Nodes
      PROVE  Cardinality(Neighbors(v)') >= m
  <2>1. HaveLinks(Nodes, edges', Nodes, m)
    BY <1>1, <1>3, <1>4, LinksGrow
  <2>2. Neighbors(v)' = Adjacent(v, edges', Nodes)
    BY DEF Neighbors, Adjacent
  <2> QED BY <2>1, <2>2 DEF HaveLinks
<1>5. CASE domain.model \in {"ba", "ba-opportunistic"}
  <2>1. HaveLinks(Nodes, edges, Nodes, domain.m)
    BY <1>1, <1>5 DEF LinkInv
  <2>2. \A v \in Nodes : Cardinality(Neighbors(v)') >= domain.m
    BY <1>1, <1>4, <2>1
  <2> QED BY <1>1, <1>5, <2>2 DEF LinkInv, EveryNodeAttached
<1>6. CASE domain.model = "ws"
  <2>1. HaveLinks(Nodes, edges, Nodes, domain.k \div 2) /\ domain.k \div 2 \in Int
    BY <1>1, <1>6 DEF LinkInv
  <2>2. \A v \in Nodes : Cardinality(Neighbors(v)') >= domain.k \div 2
    BY <1>4, <2>1
  <2> QED BY <1>1, <1>6, <2>2 DEF LinkInv, EveryNodeAttached
<1>7. CASE domain.model = "drs"
  <2> DEFINE I == ToSet(rings.inner)
             O == ToSet(rings.outer)
             B == Backbone(rings.inner)
             C == Backbone(rings.outer)
  <2>1. Joined(Nodes, edges)
    BY <1>1, <1>7 DEF GraphInv, ByConstruction
  <2>2. edges' = normal
    BY <1>2, <2>1, JoinedIsOnePart
  <2>3. DRSLinks(rings, "generated", todo, edges, candidates)
    BY <1>1, <1>7 DEF LinkInv
  <2>4. SmallWorld(I, O, B, C, edges, Beta(domain), {}, {}) /\ I \cup O = Nodes
    BY <2>3 DEF DRSLinks, Waiting, Lacking
  <2>5. B \cup C \subseteq edges'
    <3>1. ASSUME NEW ring, SimpleRing(ring), NEW e \in Backbone(ring) PROVE Cardinality(e) = 2
      BY <3>1, ChordsOfRing DEF SimpleRing
    <3>2. \A e \in B \cup C : Cardinality(e) = 2
      BY <2>3, <3>1 DEF DRSLinks
    <3>3. B \cup C \subseteq edges
      BY <2>4 DEF SmallWorld
    <3> HIDE DEF B, C
    <3> QED BY <2>2, <3>2, <3>3
  <2>6. ASSUME NEW v \in Nodes
        PROVE  /\ Neighbors(v)' \cap I = Adjacent(v, edges, I)
               /\ InnerShortcuts(v)' = Shortcuts(v, edges, I, B)
    <3>1. Adjacent(v, normal, Nodes) = Adjacent(v, edges, Nodes)
      BY NormalizedKeeps
    <3>2. Neighbors(v)' = Adjacent(v, edges', Nodes)
      BY DEF Neighbors, Adjacent
    <3>3. I \subseteq Nodes
      BY <2>4
    <3> HIDE DEF I, normal
    <3>4. Adjacent(v, edges, Nodes) \cap I = Adjacent(v, edges, I)
      BY <3>3 DEF Adjacent
    <3>5. Neighbors(v)' \cap I = Adjacent(v, edges, I)
      BY <2>2, <3>1, <3>2, <3>4
    <3>6. InnerShortcuts(v)' = {u \in Neighbors(v)' \cap I : {u, v} \notin B}
      BY <1>1 DEF InnerShortcuts, I
    <3> HIDE DEF B
    <3> QED BY <3>5, <3>6 DEF Shortcuts
  <2>7. ASSUME NEW v \in Nodes
        PROVE  IF v \in I THEN Cardinality(InnerShortcuts(v)') >= Beta(domain)
                          ELSE Cardinality(Neighbors(v)' \cap I) = Beta(domain)
    <3> HIDE DEF I, O, B, C
    <3> QED BY <2>4, <2>6 DEF SmallWorld
  <2>8. EveryNodeAttached'
    BY <1>1, <1>7, <2>5, <2>7 DEF EveryNodeAttached
  <2> QED BY <1>1, <2>8 DEF LinkInv
<1>8. CASE domain.model \notin {"ba", "ba-opportunistic", "ws", "drs"}
  BY <1>1, <1>8 DEF LinkInv, EveryNodeAttached
<1> QED BY <1>5, <1>6, <1>7, <1>8

LEMMA LinkStep == GraphInv /\ LinkInv /\ [Next]_vars => LinkInv'
<1> SUFFICES ASSUME GraphInv, LinkInv, [Next]_vars PROVE LinkInv'
  OBVIOUS
<1>1. CASE UNCHANGED vars
  <2> Nodes' = Nodes
    BY <1>1 DEF Nodes, vars
  <2>1. ASSUME NEW own, Owns(own, todo, edges) PROVE Owns(own, todo, edges)'
    BY <1>1, <2>1 DEF Owns, Positions, Lattice, vars
  <2>2. DRSLinks(rings, phase, todo, edges, candidates) =>
          DRSLinks(rings, phase, todo, edges, candidates)'
    BY <1>1 DEF DRSLinks, SmallWorld, vars, drsVars
  <2>3. EveryNodeAttached'
    BY <1>1 DEF LinkInv, EveryNodeAttached, Neighbors, InnerShortcuts, vars, drsVars
  <2> QED BY <1>1, <2>1, <2>2, <2>3 DEF LinkInv, vars, drsVars
<1>2. CASE Reject
  BY <1>2, LinkPlain DEF Reject
<1>3. CASE GenerateER \/ GenerateRegular \/ GenerateMatrix
  <2>1. phase' = "generated" /\ UNCHANGED domain
    BY <1>3 DEF GenerateER, GenerateRegular, GenerateMatrix, Return
  <2>2. domain.model \in {"er", "ring", "path", "complete", "grid", "matrix"}
    BY <1>3 DEF GenerateER, GenerateRegular, GenerateMatrix, Accept
  <2> QED BY <2>1, <2>2, LinkPlain
<1> QED BY <1>1, <1>2, <1>3, LinkSeeds, LinkAttaches, LinkDRSStarts, LinkAccess,
           LinkShortcuts, LinkFill, LinkWS, LinkFinish DEF Next

(* Every node ends with the links its model gives it, in a graph of any    *)
(* size: what a later turn removes or adds at either end takes none away.  *)
THEOREM LinksAreKept == Spec => []EveryNodeAttached
<1>1. LinkInv => EveryNodeAttached
  BY DEF LinkInv
<1>2. GraphInv /\ LinkInv /\ [Next]_vars => GraphInv' /\ LinkInv'
  BY GraphStep, LinkStep
<1> QED BY <1>1, <1>2, GraphInit, LinkInit, PTL DEF Spec

-----------------------------------------------------------------------------
(* The core has enough nodes to link.  The position after one on a ring,   *)
(* and a node of a ring has at most two neighbors on its cycle.            *)
LEMMA NextPosition ==
  ASSUME NEW k \in Nat, k > 1, NEW i \in 1..k
  PROVE  1 + ((i + 1 - 1) % k) = IF i < k THEN i + 1 ELSE 1
<1>1. i + 1 - 1 = i /\ i \in Nat /\ i < 2 * k
  OBVIOUS
<1>2. i % k = IF i < k THEN i ELSE i - k
  BY <1>1, ModOnce
<1> DEFINE r == i % k
<1>3. (i + 1 - 1) % k = r
  BY <1>1
<1> HIDE DEF r
<1>4. r = IF i < k THEN i ELSE i - k
  BY <1>2 DEF r
<1>5. 1 + r = IF i < k THEN i + 1 ELSE 1
  BY <1>4
<1> QED BY <1>3, <1>5

LEMMA RingNeighbors ==
  ASSUME NEW ring, SimpleRing(ring), NEW v \in ToSet(ring)
  PROVE  \E a, b : \A u : u # v /\ {u, v} \in Backbone(ring) => u \in {a, b}
<1> DEFINE k == Len(ring)
           next(i) == IF i < k THEN i + 1 ELSE 1
           before(i) == IF i > 1 THEN i - 1 ELSE k
<1>1. /\ k \in Nat /\ k > 1 /\ DOMAIN ring = 1..k
      /\ \A i, j \in 1..k : i # j => ring[i] # ring[j]
  BY DEF SimpleRing
<1>2. PICK p \in 1..k : v = ring[p]
  BY <1>1 DEF ToSet
<1>3. ASSUME NEW i \in 1..k PROVE Chord(ring, 1, i) = {ring[i], ring[next(i)]}
  <2>1. 1 + ((i + 1 - 1) % k) = next(i)
    <3> HIDE DEF k
    <3> QED BY <1>1, NextPosition
  <2> QED BY <2>1 DEF Chord
<1>4. k \in Nat /\ k > 1
  BY <1>1
<1> HIDE DEF k
<1>5. ASSUME NEW i \in 1..k PROVE next(i) \in 1..k /\ (next(i) = p => i = before(p))
  BY <1>4
<1> HIDE DEF next, before
<1>6. ASSUME NEW u, u # v, {u, v} \in Backbone(ring)
      PROVE  u \in {ring[next(p)], ring[before(p)]}
  <2>1. PICK i \in 1..k : {u, v} = Chord(ring, 1, i)
    BY <1>6 DEF Backbone, k
  <2>2. {u, v} = {ring[i], ring[next(i)]}
    BY <1>3, <2>1
  <2>3. CASE v = ring[i]
    <3>1. i = p
      BY <1>1, <1>2, <2>3
    <3>2. u = ring[next(i)]
      BY <1>6, <2>2, <2>3
    <3> QED BY <3>1, <3>2
  <2>4. CASE v = ring[next(i)] /\ v # ring[i]
    <3>1. next(i) = p
      BY <1>1, <1>2, <1>5, <2>4
    <3>2. i = before(p)
      BY <1>5, <3>1
    <3>3. u = ring[i]
      BY <1>6, <2>2, <2>4
    <3> QED BY <3>2, <3>3
  <2> QED BY <2>2, <2>3, <2>4
<1> QED BY <1>6

LEMMA AtMostThree ==
  ASSUME NEW a, NEW b, NEW c
  PROVE  /\ IsFiniteSet({a, b, c}) /\ Cardinality({a, b, c}) \in Nat
         /\ Cardinality({a, b, c}) <= 3
<1>1. IsFiniteSet({a}) /\ Cardinality({a}) = 1
  BY FS_Singleton
<1>2. IsFiniteSet({a} \cup {b}) /\ Cardinality({a} \cup {b}) \in {1, 2}
  BY <1>1, FS_AddElement
<1>3. IsFiniteSet(({a} \cup {b}) \cup {c}) /\ Cardinality(({a} \cup {b}) \cup {c}) \in {1, 2, 3}
  BY <1>2, FS_AddElement
<1>4. ({a} \cup {b}) \cup {c} = {a, b, c}
  OBVIOUS
<1> QED BY <1>3, <1>4

LEMMA UnionAtMost ==
  ASSUME NEW S, IsFiniteSet(S), NEW T, IsFiniteSet(T)
  PROVE  /\ IsFiniteSet(S \cup T) /\ Cardinality(S \cup T) \in Nat
         /\ Cardinality(S \cup T) <= Cardinality(S) + Cardinality(T)
<1>1. /\ IsFiniteSet(S \cup T)
      /\ Cardinality(S \cup T) = Cardinality(S) + Cardinality(T) - Cardinality(S \cap T)
  BY FS_Union
<1>2. IsFiniteSet(S \cap T)
  BY FS_Intersection
<1>3. Cardinality(S) \in Nat /\ Cardinality(T) \in Nat /\ Cardinality(S \cap T) \in Nat
      /\ Cardinality(S \cup T) \in Nat
  BY <1>1, <1>2, FS_CardinalityType
<1> QED BY <1>1, <1>3

(* A core node is not linked with all but three of the core at most: those *)
(* it is linked with by shortcuts, and those it can still be linked with,  *)
(* are the whole core but the node and its two neighbors on the ring.      *)
LEMMA EnoughTargets ==
  ASSUME domain \in Domains, ~Rejected(domain), domain.model = "drs",
         SimpleRing(rings.inner), ToSet(rings.inner) \in SUBSET Nodes,
         Cardinality(ToSet(rings.inner)) = CoreCount(domain),
         NEW node \in ToSet(rings.inner)
  PROVE  Need(node) <= Cardinality(ShortcutTargets(node))
<1> DEFINE I == ToSet(rings.inner)
           B == Backbone(rings.inner)
           S == InnerShortcuts(node)
           T == ShortcutTargets(node)
<1>1. domain.n \in Nat /\ I \in SUBSET Nodes /\ Beta(domain) \in Nat
  BY Declared, BetaIsNatural
<1>2. S \in SUBSET Nodes /\ T \in SUBSET Nodes
  BY <1>1 DEF InnerShortcuts, ShortcutTargets, Neighbors
<1>3. /\ IsFiniteSet(S) /\ Cardinality(S) \in Nat
      /\ IsFiniteSet(T) /\ Cardinality(T) \in Nat
  BY <1>1, <1>2, NodesAreFinite
<1>4. PICK a, b : \A u : u # node /\ {u, node} \in B => u \in {a, b}
  BY RingNeighbors
<1>5. I \subseteq (S \cup T) \cup {a, b, node}
  <2> SUFFICES ASSUME NEW u \in I, u \notin T, u # node PROVE u \in S \cup {a, b}
    OBVIOUS
  <2>1. u \in Neighbors(node)
    BY DEF ShortcutTargets
  <2>2. CASE {u, node} \in B
    BY <1>4, <2>2
  <2>3. CASE {u, node} \notin B
    BY <2>1, <2>3 DEF InnerShortcuts
  <2> QED BY <2>2, <2>3
<1>6. /\ IsFiniteSet({a, b, node}) /\ Cardinality({a, b, node}) \in Nat
      /\ Cardinality({a, b, node}) <= 3
  BY AtMostThree
<1>7. Need(node) = Beta(domain) - Cardinality(S)
  BY DEF Need
<1> HIDE DEF S, T
<1>8. /\ IsFiniteSet(S \cup T) /\ Cardinality(S \cup T) \in Nat
      /\ Cardinality(S \cup T) <= Cardinality(S) + Cardinality(T)
  BY <1>3, UnionAtMost
<1> DEFINE U == (S \cup T) \cup {a, b, node}
<1>9. /\ IsFiniteSet(U) /\ Cardinality(U) \in Nat
      /\ Cardinality(U) <= Cardinality(S \cup T) + Cardinality({a, b, node})
  BY <1>6, <1>8, UnionAtMost
<1>10. Cardinality(I) \in Nat /\ Cardinality(I) <= Cardinality(U)
  <2> HIDE DEF I, U
  <2>1. I \subseteq U
    BY <1>5 DEF U
  <2>2. Cardinality(I) \in Nat
    BY <1>1, NodesAreFinite
  <2> QED BY <1>9, <2>1, <2>2, FS_Subset
<1>11. Beta(domain) <= CoreCount(domain) - 3
  <2>1. ~ (domain.beta \div 100 > CoreCount(domain) - 3)
    BY NotRejected DEF DRSRejected
  <2>2. ~ (Beta(domain) > CoreCount(domain) - 3)
    BY <2>1 DEF Beta
  <2>3. CoreCount(domain) \in Nat
    BY <1>10
  <2> QED BY <1>1, <2>2, <2>3
<1>12. Cardinality(I) = CoreCount(domain)
  OBVIOUS
<1> HIDE DEF I, U
<1>13. Beta(domain) <= Cardinality(S) + Cardinality(T)
  BY <1>1, <1>3, <1>6, <1>8, <1>9, <1>10, <1>11, <1>12
<1>14. Need(node) <= Cardinality(T)
  BY <1>1, <1>3, <1>7, <1>13
<1> QED BY <1>14 DEF T

(* No shortage so far, and while shortcuts are to come a core of its size. *)
CoreSuffices ==
  /\ phase # "noTargets"
  /\ phase \in {"access", "shortcuts"} =>
       Cardinality(ToSet(rings.inner)) = CoreCount(domain)

LEMMA CoreInit == Init => CoreSuffices
BY DEF Init, CoreSuffices

LEMMA CoreStarts == GraphInv /\ StartDRS => CoreSuffices'
<1> SUFFICES ASSUME GraphInv, StartDRS PROVE CoreSuffices'
  OBVIOUS
<1>1. /\ UNCHANGED domain /\ ~Rejected(domain) /\ domain.model = "drs"
      /\ domain \in Domains /\ domain.n \in Nat /\ Nodes = 0..(domain.n - 1)
  BY Declared DEF StartDRS, Accept, GraphInv
<1>2. /\ baseline' \in domain.baselines /\ phase' = "access"
      /\ rings'.inner = Sorted(Core(baseline'))
  BY DEF StartDRS, ResolveBaselines
<1>3. Core(baseline') \in SUBSET (0..(domain.n - 1))
  BY <1>1 DEF Core
<1>4. ToSet(Sorted(Core(baseline'))) = Core(baseline')
  BY <1>1, <1>3, SortedIs
<1>5. Cardinality(Core(baseline')) = CoreCount(domain)
  BY <1>1, <1>2, RingsHaveSizes
<1> QED BY <1>1, <1>2, <1>4, <1>5 DEF CoreSuffices

LEMMA CoreShortcuts == GraphInv /\ LinkInv /\ CoreSuffices /\ AddShortcuts => CoreSuffices'
<1> SUFFICES ASSUME GraphInv, LinkInv, CoreSuffices, AddShortcuts PROVE CoreSuffices'
  OBVIOUS
<1>1. /\ UNCHANGED <<domain, rings>> /\ ~Rejected(domain) /\ domain.model = "drs"
      /\ domain \in Domains /\ phase = "shortcuts"
  BY DEF AddShortcuts, GraphInv, PhaseFits, drsVars
<1>2. DRSLinks(rings, "shortcuts", todo, edges, candidates)
  BY <1>1 DEF LinkInv
<1>3. /\ SimpleRing(rings.inner) /\ todo \subseteq ToSet(rings.inner)
      /\ ToSet(rings.inner) \in SUBSET Nodes
  BY <1>2 DEF DRSLinks
<1>4. Cardinality(ToSet(rings.inner)) = CoreCount(domain)
  BY <1>1 DEF CoreSuffices
<1>5. ASSUME NEW node \in todo PROVE ~ (Need(node) > Cardinality(ShortcutTargets(node)))
  <2>1. Need(node) <= Cardinality(ShortcutTargets(node))
    BY <1>1, <1>3, <1>4, EnoughTargets
  <2>2. Need(node) \in Int /\ Cardinality(ShortcutTargets(node)) \in Int
    <3>1. domain.n \in Nat /\ Beta(domain) \in Nat
      BY <1>1, Declared, BetaIsNatural
    <3>2. InnerShortcuts(node) \in SUBSET Nodes /\ ShortcutTargets(node) \in SUBSET Nodes
      BY <1>3 DEF InnerShortcuts, ShortcutTargets, Neighbors
    <3>3. /\ Cardinality(InnerShortcuts(node)) \in Nat
          /\ Cardinality(ShortcutTargets(node)) \in Nat
      BY <3>1, <3>2, NodesAreFinite
    <3> QED BY <3>1, <3>3 DEF Need
  <2> QED BY <2>1, <2>2
<1>6. phase' = "shortcuts"
  BY <1>1, <1>5 DEF AddShortcuts
<1> QED BY <1>1, <1>4, <1>6 DEF CoreSuffices

LEMMA CoreStep ==
  GraphInv /\ LinkInv /\ CoreSuffices /\ [Next]_vars => CoreSuffices'
<1> SUFFICES ASSUME GraphInv, LinkInv, CoreSuffices, [Next]_vars PROVE CoreSuffices'
  OBVIOUS
<1>1. CASE UNCHANGED vars \/ AddAccess
  BY <1>1 DEF CoreSuffices, AddAccess, vars, drsVars
<1>2. ASSUME phase' \notin {"access", "shortcuts", "noTargets"} PROVE CoreSuffices'
  BY <1>2 DEF CoreSuffices
<1>3. CASE \/ Reject \/ GenerateER \/ GenerateRegular \/ GenerateMatrix
          \/ Attached \/ Rewired \/ Finish
  BY <1>2, <1>3
  DEF Reject, GenerateER, GenerateRegular, GenerateMatrix, Return, Attached, Rewired, Finish
<1>4. CASE StartBA \/ StartOpportunistic \/ PickSeed \/ Attach \/ StartWS \/ Rewire
  BY <1>2, <1>4 DEF StartBA, StartOpportunistic, PickSeed, Attach, StartWS, Rewire
<1>5. CASE PlanFill \/ Fill \/ Filled
  BY <1>2, <1>5 DEF PlanFill, Fill, Filled, Return
<1> QED BY <1>1, <1>3, <1>4, <1>5, CoreStarts, CoreShortcuts DEF Next

(* An accepted DRS never fails for want of core nodes to link, whatever    *)
(* its size and in whatever order its shortcuts are drawn: generateDRS has *)
(* an error for it that cannot be returned.                                *)
THEOREM CoreNeverRunsOut == Spec => [](phase # "noTargets")
<1>1. CoreSuffices => phase # "noTargets"
  BY DEF CoreSuffices
<1>2. GraphInv /\ LinkInv /\ CoreSuffices /\ [Next]_vars
        => GraphInv' /\ LinkInv' /\ CoreSuffices'
  BY GraphStep, LinkStep, CoreStep
<1>3. Init => GraphInv /\ LinkInv /\ CoreSuffices
  BY GraphInit, LinkInit, CoreInit
<1> QED BY <1>1, <1>2, <1>3, PTL DEF Spec

-----------------------------------------------------------------------------
(* Counting edges.  What is given by distinct numbers is as much as they.  *)
LEMMA ImageCount ==
  ASSUME NEW S, IsFiniteSet(S), NEW f, DOMAIN f = S,
         \A x, y \in S : f[x] = f[y] => x = y
  PROVE  /\ IsFiniteSet({f[x] : x \in S})
         /\ Cardinality({f[x] : x \in S}) = Cardinality(S)
<1> DEFINE T == {f[x] : x \in S}
           g == [x \in S |-> f[x]]
<1>1. g \in Bijection(S, T)
  BY DEF Bijection, Injection, IsInjective, Surjection
<1> HIDE DEF T, g
<1>2. IsFiniteSet(T) /\ Cardinality(T) = Cardinality(S)
  BY <1>1, FS_Bijection DEF ExistsBijection
<1> QED BY <1>2 DEF T

LEMMA CountUpTo ==
  ASSUME NEW a \in Int, NEW b \in Int, a <= b + 1
  PROVE  IsFiniteSet(a..b) /\ Cardinality(a..b) \in Nat /\ Cardinality(a..b) = b - a + 1
<1>1. IsFiniteSet(a..b) /\ Cardinality(a..b) = IF a > b THEN 0 ELSE b - a + 1
  BY FS_Interval
<1> QED BY <1>1

LEMMA DisjointCount ==
  ASSUME NEW S, IsFiniteSet(S), NEW T, IsFiniteSet(T), S \cap T = {}
  PROVE  /\ IsFiniteSet(S \cup T) /\ Cardinality(S \cup T) \in Nat
         /\ Cardinality(S) \in Nat /\ Cardinality(T) \in Nat
         /\ Cardinality(S \cup T) = Cardinality(S) + Cardinality(T)
<1>1. /\ IsFiniteSet(S \cup T)
      /\ Cardinality(S \cup T) = Cardinality(S) + Cardinality(T) - Cardinality(S \cap T)
  BY FS_Union
<1>2. Cardinality(S \cap T) = 0
  <2>1. Cardinality({}) = 0
    BY FS_EmptySet
  <2> QED BY <2>1
<1>3. Cardinality(S) \in Nat /\ Cardinality(T) \in Nat
  BY FS_CardinalityType
<1> DEFINE s == Cardinality(S)
           t == Cardinality(T)
<1>4. Cardinality(S \cup T) = s + t - 0
  BY <1>1, <1>2
<1>5. s \in Nat /\ t \in Nat
  BY <1>3
<1> HIDE DEF s, t
<1>6. Cardinality(S \cup T) = s + t /\ Cardinality(S \cup T) \in Nat
  BY <1>4, <1>5
<1> QED BY <1>1, <1>3, <1>6 DEF s, t

(* The edges of one node to each of some others.                           *)
Star(x, S) == {{x, t} : t \in S}

LEMMA StarCount ==
  ASSUME NEW S, IsFiniteSet(S), NEW x, x \notin S
  PROVE  IsFiniteSet(Star(x, S)) /\ Cardinality(Star(x, S)) = Cardinality(S)
<1> DEFINE f == [t \in S |-> {x, t}]
<1>1. DOMAIN f = S /\ \A t, u \in S : f[t] = f[u] => t = u
  OBVIOUS
<1>2. Star(x, S) = {f[t] : t \in S}
  BY DEF Star
<1> HIDE DEF f
<1> QED BY <1>1, <1>2, ImageCount

(* Two ends make a pair, and a pair has two ends.                          *)
LEMMA PairInClique ==
  ASSUME NEW N, NEW u \in N, NEW v \in N, u # v
  PROVE  {u, v} \in Clique(N)
<1>1. Cardinality({u, v}) = 2
  BY PairHasTwo
<1> QED BY <1>1 DEF Clique

LEMMA CliqueHasPairs ==
  ASSUME NEW N, NEW e \in Clique(N), IsFiniteSet(N)
  PROVE  \E u, v \in N : u # v /\ e = {u, v}
<1>1. e \in SUBSET N /\ Cardinality(e) = 2 /\ IsFiniteSet(e)
  BY FS_Subset DEF Clique
<1>2. e # {}
  <2>1. Cardinality({}) = 0
    BY FS_EmptySet
  <2> QED BY <1>1, <2>1
<1>3. PICK u \in e : TRUE
  BY <1>2
<1>4. IsFiniteSet(e \ {u}) /\ Cardinality(e \ {u}) = 1
  BY <1>1, <1>3, FS_RemoveElement
<1>5. PICK v : e \ {u} = {v}
  BY <1>4, FS_Singleton
<1>6. u \in N /\ v \in N /\ u # v /\ e = {u, v}
  BY <1>1, <1>3, <1>5
<1> QED BY <1>6

(* A clique of n nodes has n(n - 1)/2 edges.                               *)
LEMMA Choose2Next ==
  ASSUME NEW n \in Nat
  PROVE  Choose2(n) \in Int /\ Choose2(n + 1) = Choose2(n) + n
<1> DEFINE a == n * (n - 1)
<1>1. a \in Int /\ (n + 1) * ((n + 1) - 1) = a + 2 * n
  OBVIOUS
<1>2. Choose2(n + 1) = (a + 2 * n) \div 2 /\ Choose2(n) = a \div 2
  BY <1>1 DEF Choose2
<1> HIDE DEF a
<1>3. (a + 2 * n) \div 2 = a \div 2 + n /\ a \div 2 \in Int
  BY <1>1
<1> QED BY <1>2, <1>3

LEMMA CliqueGrows ==
  ASSUME NEW T, IsFiniteSet(T), NEW x, x \notin T
  PROVE  /\ Clique(T \cup {x}) = Clique(T) \cup Star(x, T)
         /\ Clique(T) \cap Star(x, T) = {}
<1>1. IsFiniteSet(T \cup {x})
  BY FS_AddElement
<1>2. ASSUME NEW e \in Clique(T \cup {x}) PROVE e \in Clique(T) \cup Star(x, T)
  <2>1. PICK u \in T \cup {x}, v \in T \cup {x} : u # v /\ e = {u, v}
    BY <1>1, CliqueHasPairs
  <2>2. CASE u \in T /\ v \in T
    BY <2>1, <2>2, PairInClique
  <2>3. CASE u = x /\ v \in T
    BY <2>1, <2>3 DEF Star
  <2>4. CASE v = x /\ u \in T
    <3>1. e = {x, u}
      BY <2>1, <2>4
    <3> QED BY <2>4, <3>1 DEF Star
  <2> QED BY <2>1, <2>2, <2>3, <2>4
<1>3. ASSUME NEW e \in Clique(T) PROVE e \in Clique(T \cup {x}) /\ e \notin Star(x, T)
  BY DEF Clique, Star
<1>4. ASSUME NEW e \in Star(x, T) PROVE e \in Clique(T \cup {x})
  <2>1. PICK t \in T : e = {x, t}
    BY DEF Star
  <2>2. x # t /\ x \in T \cup {x} /\ t \in T \cup {x}
    OBVIOUS
  <2>3. {x, t} \in Clique(T \cup {x})
    BY <2>2, PairInClique
  <2> QED BY <2>1, <2>3
<1> QED BY <1>2, <1>3, <1>4

LEMMA CliqueCount ==
  ASSUME NEW N, IsFiniteSet(N), NEW T \in SUBSET N
  PROVE  IsFiniteSet(Clique(T)) /\ Cardinality(Clique(T)) = Choose2(Cardinality(T))
<1> DEFINE Counted(S) == Cardinality(Clique(S)) = Choose2(Cardinality(S))
           Bad == {Cardinality(S) : S \in {U \in SUBSET N : ~Counted(U)}}
<1>1. ASSUME NEW S \in SUBSET N
      PROVE  IsFiniteSet(S) /\ Cardinality(S) \in Nat /\ IsFiniteSet(Clique(S))
  <2>1. IsFiniteSet(S) /\ Cardinality(S) \in Nat
    BY FS_Subset, FS_CardinalityType
  <2>2. IsFiniteSet(SUBSET S)
    BY <2>1, FS_SUBSET
  <2>3. Clique(S) \in SUBSET (SUBSET S)
    BY DEF Clique
  <2> QED BY <2>1, <2>2, <2>3, FS_Subset
<1>2. Bad = {}
  <2> SUFFICES ASSUME Bad # {} PROVE FALSE
    OBVIOUS
  <2>1. Bad \subseteq Nat
    BY <1>1
  <2>2. PICK k \in Bad : \A y \in Bad : k <= y
    <3> HIDE DEF Bad
    <3> QED BY <2>1, LeastNatural
  <2>3. PICK S \in SUBSET N : ~Counted(S) /\ k = Cardinality(S)
    OBVIOUS
  <2>4. S # {}
    <3> SUFFICES ASSUME S = {} PROVE Counted(S)
      BY <2>3
    <3>1. Clique(S) = {}
      <4> SUFFICES ASSUME NEW e \in Clique(S) PROVE FALSE
        OBVIOUS
      <4>1. e = {} /\ Cardinality(e) = 2
        BY DEF Clique
      <4>2. Cardinality({}) = 0
        BY FS_EmptySet
      <4> QED BY <4>1, <4>2
    <3>2. Cardinality({}) = 0
      BY FS_EmptySet
    <3> QED BY <3>1, <3>2 DEF Choose2
  <2>5. PICK x \in S : TRUE
    BY <2>4
  <2> DEFINE R == S \ {x}
  <2>6. R \in SUBSET N /\ x \notin R /\ S = R \cup {x}
    BY <2>5
  <2> HIDE DEF R
  <2>7. /\ IsFiniteSet(R) /\ Cardinality(R) \in Nat /\ IsFiniteSet(Clique(R))
        /\ Cardinality(S) = Cardinality(R) + 1
    BY <1>1, <2>6, FS_AddElement
  <2>8. Counted(R)
    <3> SUFFICES ASSUME ~Counted(R) PROVE FALSE
      OBVIOUS
    <3>1. Cardinality(R) \in Bad
      BY <2>6
    <3> HIDE DEF Bad
    <3>2. k <= Cardinality(R)
      BY <2>2, <3>1
    <3> QED BY <2>3, <2>7, <3>2
  <2>9. /\ IsFiniteSet(Star(x, R)) /\ Cardinality(Star(x, R)) = Cardinality(R)
    BY <2>6, <2>7, StarCount
  <2>10. Clique(S) = Clique(R) \cup Star(x, R) /\ Clique(R) \cap Star(x, R) = {}
    BY <2>6, <2>7, CliqueGrows
  <2>11. Cardinality(Clique(S)) = Cardinality(Clique(R)) + Cardinality(R)
    BY <2>7, <2>9, <2>10, DisjointCount
  <2>12. Choose2(Cardinality(R) + 1) = Choose2(Cardinality(R)) + Cardinality(R)
    BY <2>7, Choose2Next
  <2>13. Counted(S)
    BY <2>7, <2>8, <2>11, <2>12
  <2> QED BY <2>3, <2>13
<1> QED BY <1>1, <1>2

-----------------------------------------------------------------------------
(* The generators without a loop.                                          *)
LEMMA RingCount ==
  ASSUME NEW n \in Nat, n >= 3
  PROVE  /\ RingEdges(n) \subseteq Clique(0..(n - 1))
         /\ Cardinality(RingEdges(n)) = n
<1> DEFINE S == 0..(n - 1)
           next(i) == (i + 1) % n
           f == [i \in S |-> {i, next(i)}]
<1>1. ASSUME NEW i \in S
      PROVE  next(i) = (IF i = n - 1 THEN 0 ELSE i + 1) /\ next(i) \in S /\ i # next(i)
  <2>1. i \in Int /\ 0 <= i /\ i < n
    OBVIOUS
  <2>2. CASE i = n - 1
    <3>1. next(i) = n % n /\ n % n = 0
      BY <2>2
    <3> HIDE DEF next
    <3> QED BY <2>2, <3>1
  <2>3. CASE i # n - 1
    <3>1. next(i) = i + 1
      BY <2>1, <2>3
    <3> HIDE DEF next
    <3> QED BY <2>1, <2>3, <3>1
  <2> QED BY <2>2, <2>3
<1>2. ASSUME NEW i \in S, NEW j \in S, f[i] = f[j] PROVE i = j
  <2>1. {i, next(i)} = {j, next(j)}
    BY <1>2
  <2> HIDE DEF next
  <2>2. i = j \/ (i = next(j) /\ j = next(i))
    BY <2>1
  <2>3. i \in Int /\ j \in Int /\ 0 <= i /\ 0 <= j /\ i < n /\ j < n
    OBVIOUS
  <2> QED BY <1>1, <2>2, <2>3
<1>3. RingEdges(n) = {f[i] : i \in S} /\ DOMAIN f = S
  BY DEF RingEdges
<1>4. RingEdges(n) \subseteq Clique(S)
  <2> SUFFICES ASSUME NEW e \in RingEdges(n) PROVE e \in Clique(S)
    OBVIOUS
  <2>1. PICK i \in S : e = {i, next(i)}
    BY DEF RingEdges
  <2> HIDE DEF next, S
  <2>2. next(i) \in S /\ i # next(i)
    BY <1>1
  <2> QED BY <2>1, <2>2, PairInClique
<1>5. IsFiniteSet(S) /\ Cardinality(S) = n
  <2>1. 0 \in Int /\ n - 1 \in Int /\ 0 <= (n - 1) + 1 /\ (n - 1) - 0 + 1 = n
    OBVIOUS
  <2> QED BY <2>1, CountUpTo
<1> HIDE DEF f
<1>6. Cardinality(RingEdges(n)) = n
  BY <1>2, <1>3, <1>5, ImageCount
<1> QED BY <1>4, <1>6

(* Edges between numbers a fixed distance apart.                           *)
LEMMA StepsCount ==
  ASSUME NEW S \in SUBSET Nat, IsFiniteSet(S), NEW c \in Nat, c > 0
  PROVE  /\ IsFiniteSet({{i, i + c} : i \in S})
         /\ Cardinality({{i, i + c} : i \in S}) = Cardinality(S)
<1> DEFINE f == [i \in S |-> {i, i + c}]
<1>1. ASSUME NEW i \in S, NEW j \in S, f[i] = f[j] PROVE i = j
  <2>1. i \in Nat /\ j \in Nat
    OBVIOUS
  <2>2. {i, i + c} = {j, j + c}
    BY <1>1
  <2>3. i = j \/ (i = j + c /\ j = i + c)
    BY <2>2
  <2> QED BY <2>1, <2>3
<1> DEFINE T == {{i, i + c} : i \in S}
<1>2. f \in Bijection(S, T)
  BY <1>1 DEF Bijection, Injection, IsInjective, Surjection
<1> HIDE DEF f, T
<1>3. IsFiniteSet(T) /\ Cardinality(T) = Cardinality(S)
  BY <1>2, FS_Bijection DEF ExistsBijection
<1> QED BY <1>3 DEF T

LEMMA StepsArePairs ==
  ASSUME NEW n \in Nat, NEW c \in Nat, c > 0, NEW S \in SUBSET (0..(n - 1 - c))
  PROVE  {{i, i + c} : i \in S} \subseteq Clique(0..(n - 1))
<1> SUFFICES ASSUME NEW i \in S PROVE {i, i + c} \in Clique(0..(n - 1))
  OBVIOUS
<1>1. i \in 0..(n - 1) /\ i + c \in 0..(n - 1) /\ i # i + c
  <2>1. i \in 0..(n - 1 - c)
    OBVIOUS
  <2> QED BY <2>1
<1> QED BY <1>1, PairInClique

LEMMA PathCount ==
  ASSUME NEW n \in Nat, n > 0
  PROVE  PathEdges(n) \subseteq Clique(0..(n - 1)) /\ Cardinality(PathEdges(n)) = n - 1
<1>1. PathEdges(n) = {{i, i + 1} : i \in 0..(n - 2)} /\ n - 1 - 1 = n - 2
  BY DEF PathEdges
<1>2. PathEdges(n) \subseteq Clique(0..(n - 1))
  <2>1. 0..(n - 2) \in SUBSET (0..(n - 1 - 1)) /\ 1 \in Nat /\ 1 > 0
    BY <1>1
  <2> QED BY <1>1, <2>1, StepsArePairs
<1>3. IsFiniteSet(0..(n - 2)) /\ Cardinality(0..(n - 2)) = n - 1
  <2>1. 0 \in Int /\ n - 2 \in Int /\ 0 <= (n - 2) + 1 /\ (n - 2) - 0 + 1 = n - 1
    OBVIOUS
  <2> QED BY <2>1, CountUpTo
<1>4. 0..(n - 2) \in SUBSET Nat /\ 1 \in Nat /\ 1 > 0
  OBVIOUS
<1> QED BY <1>1, <1>2, <1>3, <1>4, StepsCount

LEMMA PairsAreClique ==
  ASSUME NEW d, d.n \in Nat
  PROVE  PairsOf(d) = Clique(NodesOf(d))
<1>1. NodesOf(d) \subseteq Int /\ IsFiniteSet(NodesOf(d))
  <2>1. 0 \in Int /\ d.n - 1 \in Int
    OBVIOUS
  <2>2. IsFiniteSet(0..(d.n - 1))
    BY <2>1, FS_Interval
  <2> QED BY <2>1, <2>2 DEF NodesOf
<1>2. ASSUME NEW e \in PairsOf(d) PROVE e \in Clique(NodesOf(d))
  <2>1. PICK x \in NodesOf(d) \X NodesOf(d) : x[1] < x[2] /\ e = {x[1], x[2]}
    BY DEF PairsOf
  <2>2. x[1] \in NodesOf(d) /\ x[2] \in NodesOf(d) /\ x[1] \in Int /\ x[2] \in Int
    BY <1>1
  <2>3. x[1] # x[2]
    BY <2>1, <2>2
  <2> QED BY <2>1, <2>2, <2>3, PairInClique
<1>3. ASSUME NEW e \in Clique(NodesOf(d)) PROVE e \in PairsOf(d)
  <2>1. PICK u \in NodesOf(d), v \in NodesOf(d) : u # v /\ e = {u, v}
    BY <1>1, CliqueHasPairs
  <2>2. u \in Int /\ v \in Int
    BY <1>1
  <2>3. CASE u < v
    <3>1. <<u, v>> \in {y \in NodesOf(d) \X NodesOf(d) : y[1] < y[2]}
      BY <2>3
    <3> QED BY <2>1, <3>1 DEF PairsOf
  <2>4. CASE v < u
    <3>1. <<v, u>> \in {y \in NodesOf(d) \X NodesOf(d) : y[1] < y[2]}
      BY <2>4
    <3>2. e = {v, u}
      BY <2>1
    <3> QED BY <3>1, <3>2 DEF PairsOf
  <2> QED BY <2>1, <2>2, <2>3, <2>4
<1> QED BY <1>2, <1>3

(* A grid of r rows and c columns.  The nodes that are not in the last     *)
(* column, by row and column.                                              *)
LEMMA RowAndColumn ==
  ASSUME NEW c \in Nat, c > 0, NEW a \in Nat, NEW b \in 0..(c - 1)
  PROVE  (a * c + b) % c = b /\ (a * c + b) \div c = a
<1> DEFINE j == a * c + b
<1>1. a * c \in Nat /\ j \in Nat
  OBVIOUS
<1> DEFINE q == j \div c
           m == j % c
<1>2. q \in Nat /\ m \in 0..(c - 1) /\ j = c * q + m
  BY <1>1
<1>3. a * c + b = q * c + m
  BY <1>2
<1> HIDE DEF j, q, m
<1>4. ~ (a < q)
  <2> SUFFICES ASSUME a < q PROVE FALSE
    OBVIOUS
  <2>1. a + 1 <= q
    BY <1>2
  <2>2. (a + 1) * c <= q * c
    BY <1>2, <2>1
  <2>3. (a + 1) * c = a * c + c /\ q * c \in Nat
    BY <1>2
  <2> QED BY <1>1, <1>2, <1>3, <2>2, <2>3
<1>5. ~ (q < a)
  <2> SUFFICES ASSUME q < a PROVE FALSE
    OBVIOUS
  <2>1. q + 1 <= a
    BY <1>2
  <2>2. (q + 1) * c <= a * c
    BY <1>2, <2>1
  <2>3. (q + 1) * c = q * c + c /\ q * c \in Nat
    BY <1>2
  <2> QED BY <1>1, <1>2, <1>3, <2>2, <2>3
<1>6. a = q
  BY <1>2, <1>4, <1>5
<1>7. b = m
  <2>1. a * c = q * c /\ q * c \in Nat
    BY <1>2, <1>6
  <2> QED BY <1>1, <1>2, <1>3, <2>1
<1> QED BY <1>6, <1>7 DEF j, q, m

LEMMA NotLastColumn ==
  ASSUME NEW r \in Nat, r > 0, NEW c \in Nat, c > 0, NEW n \in Nat, n = r * c
  PROVE  LET J == {j \in 0..(n - 2) : j % c < c - 1}
         IN  IsFiniteSet(J) /\ Cardinality(J) = r * (c - 1)
<1> DEFINE J == {j \in 0..(n - 2) : j % c < c - 1}
           G == (0..(r - 1)) \X (0..(c - 2))
           f == [x \in G |-> x[1] * c + x[2]]
<1>1. ASSUME NEW x \in G
      PROVE  /\ x[1] \in Nat /\ x[1] <= r - 1 /\ x[2] \in Nat /\ x[2] <= c - 2
             /\ f[x] = x[1] * c + x[2]
             /\ f[x] % c = x[2] /\ f[x] \div c = x[1]
  <2>1. /\ x[1] \in Nat /\ x[1] <= r - 1 /\ x[2] \in Nat /\ x[2] <= c - 2
        /\ x[2] \in 0..(c - 1)
    <3>1. x[1] \in 0..(r - 1) /\ x[2] \in 0..(c - 2)
      OBVIOUS
    <3> QED BY <3>1
  <2>2. f[x] = x[1] * c + x[2]
    OBVIOUS
  <2>3. (x[1] * c + x[2]) % c = x[2] /\ (x[1] * c + x[2]) \div c = x[1]
    BY <2>1, RowAndColumn
  <2> QED BY <2>1, <2>2, <2>3
<1>2. ASSUME NEW x \in G PROVE f[x] \in J
  <2>1. x[1] * c \in Nat /\ x[1] * c <= (r - 1) * c /\ (r - 1) * c = n - c
    <3>1. x[1] \in Nat /\ x[1] <= r - 1
      BY <1>1
    <3>2. (r - 1) * c = r * c - c
      OBVIOUS
    <3> HIDE DEF G, f
    <3> QED BY <3>1, <3>2
  <2>2. f[x] \in 0..(n - 2)
    <3> DEFINE y == x[1] * c
    <3>1. y \in Nat /\ y <= n - c /\ f[x] = y + x[2]
      BY <1>1, <2>1
    <3> HIDE DEF y, f, G
    <3> QED BY <1>1, <3>1
  <2>3. f[x] % c < c - 1
    BY <1>1
  <2> HIDE DEF f
  <2> QED BY <2>2, <2>3
<1>3. ASSUME NEW j \in J PROVE \E x \in G : f[x] = j
  <2>1. j \in Nat /\ j <= n - 2 /\ j % c < c - 1
    OBVIOUS
  <2> DEFINE a == j \div c
             b == j % c
  <2>2. a \in Nat /\ b \in 0..(c - 2) /\ j = c * a + b
    BY <2>1
  <2> HIDE DEF a, b
  <2>3. ~ (a >= r)
    <3> SUFFICES ASSUME a >= r PROVE FALSE
      OBVIOUS
    <3>1. a * c >= r * c
      BY <2>2
    <3>2. a * c \in Nat /\ r * c \in Nat /\ c * a = a * c
      BY <2>2
    <3> DEFINE y == a * c
               z == r * c
    <3>3. y >= z /\ y \in Nat /\ z \in Nat /\ j = y + b /\ n = z
      BY <2>2, <3>1, <3>2
    <3> HIDE DEF y, z, J
    <3> QED BY <2>1, <2>2, <3>3
  <2>4. <<a, b>> \in G
    BY <2>2, <2>3
  <2>5. f[<<a, b>>] = j
    BY <2>2, <2>4
  <2> HIDE DEF f, G
  <2> QED BY <2>4, <2>5
<1>4. ASSUME NEW x \in G, NEW y \in G, f[x] = f[y] PROVE x = y
  <2>1. x[1] = y[1] /\ x[2] = y[2]
    <3> HIDE DEF f, G
    <3> QED BY <1>1, <1>4
  <2> QED BY <2>1
<1>5. J = {f[x] : x \in G} /\ DOMAIN f = G
  <2>1. DOMAIN f = G
    OBVIOUS
  <2> HIDE DEF J, G, f
  <2> QED BY <1>2, <1>3, <2>1
<1>6. IsFiniteSet(G) /\ Cardinality(G) = r * (c - 1)
  <2>1. IsFiniteSet(0..(r - 1)) /\ Cardinality(0..(r - 1)) = r
    <3>1. 0 \in Int /\ r - 1 \in Int /\ 0 <= (r - 1) + 1 /\ (r - 1) - 0 + 1 = r
      OBVIOUS
    <3> QED BY <3>1, CountUpTo
  <2>2. IsFiniteSet(0..(c - 2)) /\ Cardinality(0..(c - 2)) = c - 1
    <3>1. 0 \in Int /\ c - 2 \in Int /\ 0 <= (c - 2) + 1 /\ (c - 2) - 0 + 1 = c - 1
      OBVIOUS
    <3> QED BY <3>1, CountUpTo
  <2> DEFINE rows == 0..(r - 1)
             columns == 0..(c - 2)
  <2> HIDE DEF rows, columns
  <2>3. /\ IsFiniteSet(rows \X columns)
        /\ Cardinality(rows \X columns) = Cardinality(rows) * Cardinality(columns)
    BY <2>1, <2>2, FS_Product DEF rows, columns
  <2>4. G = rows \X columns /\ Cardinality(rows) = r /\ Cardinality(columns) = c - 1
    BY <2>1, <2>2 DEF rows, columns
  <2> HIDE DEF G
  <2> QED BY <2>3, <2>4
<1> HIDE DEF J, G, f
<1>7. IsFiniteSet(J) /\ Cardinality(J) = r * (c - 1)
  BY <1>4, <1>5, <1>6, ImageCount
<1> QED BY <1>7 DEF J

LEMMA GridCount ==
  ASSUME NEW r \in Nat, r > 0, NEW c \in Nat, c > 0, NEW n \in Nat, n = r * c
  PROVE  /\ GridEdges(n, c) \subseteq Clique(0..(n - 1))
         /\ Cardinality(GridEdges(n, c)) = r * (c - 1) + (r - 1) * c
<1> DEFINE J == {j \in 0..(n - 2) : j % c < c - 1}
           K == 0..(n - 1 - c)
           right == {{i, i + 1} : i \in J}
           lower == {{i, i + c} : i \in K}
<1>1. n >= c /\ n - c = (r - 1) * c
  <2>1. (r - 1) * c \in Nat /\ r * c = (r - 1) * c + c
    OBVIOUS
  <2> DEFINE y == (r - 1) * c
  <2>2. y \in Nat /\ n = y + c
    BY <2>1
  <2> HIDE DEF y
  <2>3. n >= c /\ n - c = y
    BY <2>2
  <2> QED BY <2>3 DEF y
<1>2. IsFiniteSet(J) /\ Cardinality(J) = r * (c - 1)
  BY NotLastColumn
<1>3. IsFiniteSet(K) /\ Cardinality(K) = (r - 1) * c
  <2>1. 0 \in Int /\ n - 1 - c \in Int /\ 0 <= (n - 1 - c) + 1 /\ (n - 1 - c) - 0 + 1 = n - c
    BY <1>1
  <2> QED BY <1>1, <2>1, CountUpTo
<1>4. right \subseteq Clique(0..(n - 1)) /\ lower \subseteq Clique(0..(n - 1))
  <2>1. J \in SUBSET (0..(n - 1 - 1)) /\ 1 \in Nat /\ 1 > 0
    <3>1. n - 1 - 1 = n - 2
      OBVIOUS
    <3> QED BY <3>1
  <2>2. K \in SUBSET (0..(n - 1 - c))
    OBVIOUS
  <2> HIDE DEF J, K
  <2> QED BY <2>1, <2>2, StepsArePairs
<1>5. /\ IsFiniteSet(right) /\ Cardinality(right) = Cardinality(J)
      /\ IsFiniteSet(lower) /\ Cardinality(lower) = Cardinality(K)
  <2>1. J \in SUBSET Nat /\ K \in SUBSET Nat /\ 1 \in Nat /\ 1 > 0
    OBVIOUS
  <2> HIDE DEF J, K
  <2> QED BY <1>2, <1>3, <2>1, StepsCount
<1>6. right \cap lower = {}
  <2> SUFFICES ASSUME NEW i \in J, NEW j \in K, {i, i + 1} = {j, j + c} PROVE FALSE
    OBVIOUS
  <2>1. i \in Nat /\ j \in Nat /\ i % c < c - 1
    OBVIOUS
  <2>2. c # 1
    <3> SUFFICES ASSUME c = 1 PROVE FALSE
      OBVIOUS
    <3>1. i % c = 0
      BY <2>1
    <3> QED BY <2>1, <3>1
  <2>3. (i = j /\ i + 1 = j + c) \/ (i = j + c /\ i + 1 = j)
    BY <2>1
  <2> QED BY <2>1, <2>2, <2>3
<1>7. GridEdges(n, c) = right \cup lower
  BY DEF GridEdges
<1> HIDE DEF J, K, right, lower
<1>8. Cardinality(right \cup lower) = r * (c - 1) + (r - 1) * c
  <2>1. Cardinality(right \cup lower) = Cardinality(right) + Cardinality(lower)
    BY <1>5, <1>6, DisjointCount
  <2> QED BY <1>2, <1>3, <1>5, <2>1
<1> QED BY <1>4, <1>7, <1>8

(* A symmetric matrix has two bits for every edge.                         *)
LEMMA MatrixCount ==
  ASSUME NEW n \in Nat, NEW M \in SUBSET ((0..(n - 1)) \X (0..(n - 1))),
         \A i \in 0..(n - 1) : <<i, i>> \notin M,
         \A x \in M : <<x[2], x[1]>> \in M
  PROVE  /\ {{x[1], x[2]} : x \in M} \subseteq Clique(0..(n - 1))
         /\ Cardinality({{x[1], x[2]} : x \in M}) = Cardinality(M) \div 2
<1> DEFINE N == 0..(n - 1)
           E == {{x[1], x[2]} : x \in M}
           above == {x \in M : x[1] < x[2]}
           below == {x \in M : x[2] < x[1]}
<1>1. ASSUME NEW x \in M
      PROVE  /\ x[1] \in N /\ x[2] \in N /\ x[1] # x[2] /\ x = <<x[1], x[2]>>
             /\ x[1] \in Int /\ x[2] \in Int
  <2>1. x \in N \X N
    OBVIOUS
  <2>2. x[1] \in N /\ x[2] \in N /\ x = <<x[1], x[2]>>
    BY <2>1
  <2> QED BY <2>2
<1>2. E \subseteq Clique(N)
  <2> SUFFICES ASSUME NEW x \in M PROVE {x[1], x[2]} \in Clique(N)
    OBVIOUS
  <2> HIDE DEF N
  <2> QED BY <1>1, PairInClique
<1>3. IsFiniteSet(M) /\ IsFiniteSet(above) /\ IsFiniteSet(below)
  <2>1. 0 \in Int /\ n - 1 \in Int
    OBVIOUS
  <2>2. IsFiniteSet(N)
    BY <2>1, FS_Interval
  <2>3. IsFiniteSet(N \X N)
    BY <2>2, FS_Product
  <2>4. IsFiniteSet(M)
    BY <2>3, FS_Subset
  <2>5. above \in SUBSET M /\ below \in SUBSET M
    OBVIOUS
  <2> QED BY <2>4, <2>5, FS_Subset
<1>4. M = above \cup below /\ above \cap below = {}
  BY <1>1
<1> DEFINE f == [x \in above |-> {x[1], x[2]}]
           g == [x \in above |-> <<x[2], x[1]>>]
<1>5. f \in Bijection(above, E)
  <2>1. \A x \in above : f[x] \in E
    OBVIOUS
  <2>2. ASSUME NEW x \in above, NEW y \in above, f[x] = f[y] PROVE x = y
    <3>1. x \in M /\ y \in M /\ x[1] < x[2] /\ y[1] < y[2] /\ {x[1], x[2]} = {y[1], y[2]}
      BY <2>2
    <3>2. x[1] = y[1] /\ x[2] = y[2]
      BY <1>1, <3>1
    <3> QED BY <1>1, <3>1, <3>2
  <2>3. ASSUME NEW e \in E PROVE \E x \in above : f[x] = e
    <3>1. PICK x \in M : e = {x[1], x[2]}
      OBVIOUS
    <3>2. CASE x[1] < x[2]
      BY <3>1, <3>2
    <3>3. CASE x[2] < x[1]
      <4>1. <<x[2], x[1]>> \in above
        BY <3>3
      <4>2. f[<<x[2], x[1]>>] = {x[2], x[1]}
        BY <4>1
      <4> QED BY <3>1, <4>1, <4>2
    <3> QED BY <1>1, <3>2, <3>3
  <2>4. f \in [above -> E]
    OBVIOUS
  <2> HIDE DEF f, E, above
  <2> QED BY <2>2, <2>3, <2>4 DEF Bijection, Injection, IsInjective, Surjection
<1>6. g \in Bijection(above, below)
  <2>1. g \in [above -> below]
    OBVIOUS
  <2>2. ASSUME NEW x \in above, NEW y \in above, g[x] = g[y] PROVE x = y
    <3>1. x \in M /\ y \in M /\ <<x[2], x[1]>> = <<y[2], y[1]>>
      BY <2>2
    <3>2. x[1] = y[1] /\ x[2] = y[2]
      BY <3>1
    <3> QED BY <1>1, <3>1, <3>2
  <2>3. ASSUME NEW y \in below PROVE \E x \in above : g[x] = y
    <3>1. <<y[2], y[1]>> \in above
      OBVIOUS
    <3>2. g[<<y[2], y[1]>>] = <<y[1], y[2]>>
      BY <3>1
    <3> QED BY <1>1, <3>1, <3>2
  <2> HIDE DEF g, above, below
  <2> QED BY <2>1, <2>2, <2>3 DEF Bijection, Injection, IsInjective, Surjection
<1> HIDE DEF f, g, above, below, E
<1>7. Cardinality(E) = Cardinality(above) /\ Cardinality(below) = Cardinality(above)
  BY <1>3, <1>5, <1>6, FS_Bijection DEF ExistsBijection
<1>8. Cardinality(above) \in Nat /\ Cardinality(M) = Cardinality(above) + Cardinality(below)
  BY <1>3, <1>4, DisjointCount
<1>9. Cardinality(E) = Cardinality(M) \div 2
  <2> DEFINE a == Cardinality(above)
  <2>1. a \in Nat /\ Cardinality(E) = a /\ Cardinality(M) = a + a
    BY <1>7, <1>8
  <2> HIDE DEF a
  <2> QED BY <2>1
<1> QED BY <1>2, <1>9 DEF E

-----------------------------------------------------------------------------
(* The repair.  Two parts have no node in common.                          *)
LEMMA PartsAreDisjoint ==
  ASSUME NEW E, NEW P \in Components(E), NEW Q \in Components(E), P \cap Q # {}
  PROVE  P = Q
<1>1. P \in SUBSET Nodes /\ Closed(P, E) /\ Q \in SUBSET Nodes /\ Closed(Q, E)
  BY DEF Components
<1>2. P \subseteq Q /\ Q \subseteq P
  BY <1>1, PartWithin
<1> QED BY <1>2

(* The chain has one node of every part, at one position each.             *)
LEMMA ChainOfParts ==
  ASSUME domain.n \in Nat, NEW E, NEW c \in Chains(Components(E))
  PROVE  \E at \in [1..Cardinality(Components(E)) -> Components(E)] :
           /\ \A i \in DOMAIN at : c[i] \in at[i]
           /\ \A i, j \in DOMAIN at : i # j => at[i] \cap at[j] = {}
<1> DEFINE parts == Components(E)
           k == Cardinality(parts)
<1>1. IsFiniteSet(parts) /\ k \in Nat
  BY PartsAreCounted
<1>2. /\ c \in [1..k -> Nodes]
      /\ \A P \in parts : \E i \in 1..k : c[i] \in P
  BY DEF Chains
<1>3. IsFiniteSet(1..k) /\ Cardinality(1..k) = k
  <2>1. 1 \in Int /\ k \in Int /\ 1 <= k + 1 /\ k - 1 + 1 = k
    BY <1>1
  <2> QED BY <2>1, CountUpTo
<1> DEFINE place(P) == CHOOSE i \in 1..k : c[i] \in P
           f == [P \in parts |-> place(P)]
<1>4. ASSUME NEW P \in parts PROVE f[P] \in 1..k /\ c[f[P]] \in P
  BY <1>2
<1>5. ASSUME NEW P \in parts, NEW Q \in parts, f[P] = f[Q] PROVE P = Q
  <2>1. c[f[P]] \in P \cap Q
    BY <1>4, <1>5
  <2> QED BY <2>1, PartsAreDisjoint
<1>6. f \in [parts -> 1..k]
  BY <1>4
<1> HIDE DEF f
<1>7. f \in Injection(parts, 1..k)
  BY <1>5, <1>6 DEF Injection, IsInjective
<1>8. f \in Surjection(parts, 1..k)
  <2> HIDE DEF parts
  <2>1. Cardinality(parts) = Cardinality(1..k)
    BY <1>3
  <2> QED BY <1>3, <1>7, <2>1, FS_Injection
<1> DEFINE at == [i \in 1..k |-> CHOOSE P \in parts : f[P] = i]
<1>9. ASSUME NEW i \in 1..k PROVE at[i] \in parts /\ f[at[i]] = i
  <2>1. \E P \in parts : f[P] = i
    BY <1>8 DEF Surjection
  <2> QED BY <2>1
<1>10. at \in [1..k -> parts]
  BY <1>9
<1> HIDE DEF at
<1>11. \A i \in 1..k : c[i] \in at[i]
  BY <1>4, <1>9
<1>12. ASSUME NEW i \in 1..k, NEW j \in 1..k, i # j PROVE at[i] \cap at[j] = {}
  <2>1. at[i] # at[j]
    BY <1>9, <1>12
  <2> QED BY <1>9, <2>1, PartsAreDisjoint
<1>13. \A i, j \in 1..k : i # j => at[i] \cap at[j] = {}
  BY <1>12
<1>14. DOMAIN at = 1..k
  BY <1>10
<1> QED BY <1>10, <1>11, <1>13, <1>14

LEMMA LinksCount ==
  ASSUME domain.n \in Nat, NEW E, IsFiniteSet(E), NEW c \in Chains(Components(E)),
         Cardinality(Components(E)) > 1
  PROVE  /\ Links(c) \subseteq Clique(Nodes)
         /\ Cardinality(E \cup Links(c)) = Cardinality(E) + Cardinality(Components(E)) - 1
<1> DEFINE k == Cardinality(Components(E))
           S == 1..(k - 1)
           L == {{c[i], c[i + 1]} : i \in S}
           f == [i \in S |-> {c[i], c[i + 1]}]
<1>1. k \in Nat /\ k > 1
  BY PartsAreCounted
<1>2. c \in [1..k -> Nodes]
  BY DEF Chains
<1> HIDE DEF k
<1>3. Links(c) = L
  <2>1. Len(c) = k
    BY <1>1, <1>2
  <2> QED BY <2>1 DEF Links
<1>4. PICK at \in [1..k -> Components(E)] :
        /\ \A i \in 1..k : c[i] \in at[i]
        /\ \A i, j \in 1..k : i # j => at[i] \cap at[j] = {}
  <2>1. PICK at \in [1..k -> Components(E)] :
          /\ \A i \in DOMAIN at : c[i] \in at[i]
          /\ \A i, j \in DOMAIN at : i # j => at[i] \cap at[j] = {}
    BY ChainOfParts DEF k
  <2>2. DOMAIN at = 1..k
    OBVIOUS
  <2> QED BY <2>1, <2>2
<1>5. ASSUME NEW i \in 1..k, NEW j \in 1..k, i # j PROVE c[i] # c[j] /\ {c[i], c[j]} \notin E
  <2>1. c[i] \in at[i] /\ c[j] \in at[j] /\ at[i] \cap at[j] = {} /\ at[i] \in Components(E)
    BY <1>4, <1>5
  <2>2. Closed(at[i], E)
    BY <2>1 DEF Components
  <2>3. {c[i], c[j]} \cap at[i] # {} /\ ~ ({c[i], c[j]} \subseteq at[i])
    BY <2>1
  <2> QED BY <2>1, <2>2, <2>3 DEF Closed
<1>6. ASSUME NEW i \in S PROVE i \in 1..k /\ i + 1 \in 1..k /\ i # i + 1
  BY <1>1
<1>7. L \subseteq Clique(Nodes)
  <2> SUFFICES ASSUME NEW i \in S PROVE {c[i], c[i + 1]} \in Clique(Nodes)
    OBVIOUS
  <2>1. c[i] \in Nodes /\ c[i + 1] \in Nodes /\ c[i] # c[i + 1]
    BY <1>2, <1>5, <1>6
  <2> QED BY <2>1, PairInClique
<1>8. E \cap L = {}
  BY <1>5, <1>6
<1>9. f \in Bijection(S, L)
  <2>1. ASSUME NEW i \in S, NEW j \in S, f[i] = f[j] PROVE i = j
    <3>1. /\ i \in 1..k /\ i + 1 \in 1..k /\ j \in 1..k /\ j + 1 \in 1..k
          /\ {c[i], c[i + 1]} = {c[j], c[j + 1]}
      BY <1>6, <2>1
    <3>2. c[i] = c[j] \/ (c[i] = c[j + 1] /\ c[i + 1] = c[j])
      BY <3>1
    <3>3. i = j \/ (i = j + 1 /\ i + 1 = j)
      <4> HIDE DEF S, f
      <4> QED BY <1>5, <3>1, <3>2
    <3> QED BY <3>1, <3>3
  <2>2. f \in [S -> L] /\ \A e \in L : \E i \in S : f[i] = e
    OBVIOUS
  <2> HIDE DEF f, S, L
  <2> QED BY <2>1, <2>2 DEF Bijection, Injection, IsInjective, Surjection
<1>10. IsFiniteSet(S) /\ Cardinality(S) = k - 1
  <2>1. 1 \in Int /\ k - 1 \in Int /\ 1 <= (k - 1) + 1 /\ (k - 1) - 1 + 1 = k - 1
    BY <1>1
  <2> QED BY <2>1, CountUpTo
<1> HIDE DEF f, S, L
<1>11. IsFiniteSet(L) /\ Cardinality(L) = k - 1
  BY <1>9, <1>10, FS_Bijection DEF ExistsBijection
<1>12. Cardinality(E \cup L) = Cardinality(E) + Cardinality(L) /\ Cardinality(E) \in Nat
  BY <1>8, <1>11, DisjointCount
<1>13. Cardinality(E \cup L) = Cardinality(E) + k - 1
  <2> DEFINE a == Cardinality(E)
  <2>1. a \in Nat /\ Cardinality(E \cup L) = a + (k - 1)
    BY <1>11, <1>12
  <2> HIDE DEF a
  <2>2. Cardinality(E \cup L) = a + k - 1
    BY <1>1, <2>1
  <2> QED BY <2>2 DEF a
<1> QED BY <1>3, <1>7, <1>13 DEF k

(* Where there is nothing to repair there is one part.                     *)
LEMMA OnePart ==
  ASSUME domain.n \in Nat, domain.n > 0, NEW E, E \subseteq SUBSET Nodes,
         ~ (Cardinality(Components(E)) > 1)
  PROVE  Cardinality(Components(E)) = 1
<1>1. Nodes # {}
  <2>1. 0 \in Nodes
    BY DEF Nodes, NodesOf
  <2> QED BY <2>1
<1>2. Closed(Nodes, E)
  BY DEF Closed
<1>3. Components(E) # {}
  BY <1>1, <1>2, PartBelow
<1>4. IsFiniteSet(Components(E)) /\ Cardinality(Components(E)) \in Nat
  BY PartsAreCounted
<1>5. Cardinality(Components(E)) # 0
  BY <1>3, <1>4, FS_EmptySet
<1> QED BY <1>4, <1>5

-----------------------------------------------------------------------------
(* The invariant of the budget: the edges are pairs of nodes, and where a  *)
(* loop is under way their number is what its turns so far have given.     *)
Phases == {"declared", "rejected", "attach", "clique", "access", "shortcuts",
           "noTargets", "overBudget", "fill", "underBudget", "rewire", "generated", "done"}

Grown(E, D, m) ==
  /\ E \subseteq Clique(D)
  /\ Cardinality(E) = Choose2(m + 1) + m * (Cardinality(D) - (m + 1))

EdgeInv ==
  /\ TypeOK
  /\ phase = "attach" => Grown(edges, Nodes \ todo, domain.m)
  /\ phase = "fill" => Cardinality(edges) <= TargetEdges(domain)
  /\ phase = "generated" => edges = generated
  /\ EdgeBudget

LEMMA TypeParts ==
  ASSUME domain \in Domains
  PROVE  TypeOK <=> /\ phase \in Phases
                    /\ edges \subseteq Clique(Nodes) /\ generated \subseteq Clique(Nodes)
                    /\ seeds \subseteq Nodes
                    /\ \A r \in Rings : ToSet(rings[r]) \subseteq Nodes
                    /\ added \in [Rings -> Nat]
<1>1. PairsOf(domain) = Clique(Nodes)
  BY Declared, PairsAreClique DEF Nodes
<1> QED BY <1>1 DEF TypeOK, Phases

LEMMA TypePartsNext ==
  ASSUME domain \in Domains, UNCHANGED domain, phase' \in Phases,
         edges' \subseteq Clique(Nodes), generated' \subseteq Clique(Nodes),
         seeds' \subseteq Nodes,
         \A r \in Rings : ToSet(rings'[r]) \subseteq Nodes,
         added' \in [Rings -> Nat]
  PROVE  TypeOK'
<1>1. PairsOf(domain) = Clique(Nodes)
  BY Declared, PairsAreClique DEF Nodes
<1>2. Nodes' = Nodes
  BY DEF Nodes
<1> QED BY <1>1, <1>2 DEF TypeOK, Phases

LEMMA EdgesAreFinite ==
  ASSUME domain.n \in Nat, NEW E, E \subseteq Clique(Nodes)
  PROVE  IsFiniteSet(E) /\ Cardinality(E) \in Nat
<1>1. IsFiniteSet(Nodes)
  BY NodesAreFinite
<1>2. IsFiniteSet(Clique(Nodes))
  BY <1>1, CliqueCount
<1> QED BY <1>2, FS_Subset, FS_CardinalityType

LEMMA EdgeInit == Init => EdgeInv
<1> SUFFICES ASSUME Init PROVE EdgeInv
  OBVIOUS
<1>1. domain \in Domains
  BY DEF Init
<1>2. \A r \in Rings : ToSet(rings[r]) = {}
  <2>1. \A r \in Rings : rings[r] = <<>>
    BY DEF Init
  <2>2. ToSet(<<>>) = {}
    BY DEF ToSet
  <2> QED BY <2>1, <2>2
<1>3. added \in [Rings -> Nat] /\ phase \in Phases
  BY DEF Init, Phases
<1>4. TypeOK
  <2>1. edges = {} /\ generated = {} /\ seeds = {}
    BY DEF Init
  <2> QED BY <1>1, <1>2, <1>3, <2>1, TypeParts
<1> QED BY <1>4 DEF Init, EdgeInv, EdgeBudget

(* In the middle of a generator.                                           *)
LEMMA EdgesOnTheWay ==
  ASSUME EdgeInv, UNCHANGED <<domain, generated>>,
         phase' \in Phases \ {"attach", "generated", "done"},
         edges' \subseteq Clique(Nodes), seeds' \subseteq Nodes,
         \A r \in Rings : ToSet(rings'[r]) \subseteq Nodes,
         added' \in [Rings -> Nat],
         phase' = "fill" => Cardinality(edges') <= TargetEdges(domain)
  PROVE  EdgeInv'
<1>1. domain \in Domains /\ generated \subseteq Clique(Nodes)
  BY TypeParts DEF EdgeInv, TypeOK
<1>2. TypeOK'
  BY <1>1, TypePartsNext
<1> QED BY <1>2 DEF EdgeInv, EdgeBudget, Phases

LEMMA EdgesGrown ==
  ASSUME EdgeInv, UNCHANGED <<domain, generated, rings, added>>, phase' = "attach",
         seeds' \subseteq Nodes, Grown(edges', Nodes \ todo', domain.m)
  PROVE  EdgeInv'
<1>1. /\ domain \in Domains /\ generated \subseteq Clique(Nodes) /\ added \in [Rings -> Nat]
      /\ \A r \in Rings : ToSet(rings[r]) \subseteq Nodes
  BY TypeParts DEF EdgeInv, TypeOK
<1>2. edges' \subseteq Clique(Nodes)
  BY DEF Grown, Clique
<1>3. TypeOK'
  BY <1>1, <1>2, TypePartsNext DEF Phases
<1>4. Nodes' = Nodes
  BY DEF Nodes
<1> QED BY <1>3, <1>4 DEF EdgeInv, EdgeBudget

LEMMA EdgesReturned ==
  ASSUME EdgeInv, UNCHANGED <<domain, seeds, rings, added>>, NEW E, Return(E),
         E \subseteq Clique(Nodes),
         domain.model # "er" => Cardinality(E) = Owed(domain)
  PROVE  EdgeInv'
<1>1. /\ domain \in Domains /\ seeds \subseteq Nodes /\ added \in [Rings -> Nat]
      /\ \A r \in Rings : ToSet(rings[r]) \subseteq Nodes
  BY TypeParts DEF EdgeInv, TypeOK
<1>2. TypeOK'
  BY <1>1, TypePartsNext DEF Phases, Return
<1>3. Cardinality(edges') = Owed(domain)'
  <2>1. CASE domain.model = "er"
    BY <2>1 DEF Owed, Return
  <2>2. CASE domain.model # "er"
    <3>1. domain.model \in Models
      BY <1>1, Declared
    <3>2. Owed(domain)' = Owed(domain)
      BY <2>2, <3>1 DEF Owed, Models, TargetEdges, Rows, Columns, Choose2
    <3> QED BY <2>2, <3>2 DEF Return
  <2> QED BY <2>1, <2>2
<1> QED BY <1>2, <1>3 DEF EdgeInv, EdgeBudget, Return

LEMMA StarInClique ==
  ASSUME NEW N, NEW E, E \subseteq Clique(N), NEW x \in N, NEW S \in SUBSET (N \ {x})
  PROVE  E \cup {{x, t} : t \in S} \subseteq Clique(N)
<1>1. ASSUME NEW t \in S PROVE {x, t} \in Clique(N)
  <2>1. t \in N /\ x # t
    OBVIOUS
  <2> QED BY <2>1, PairInClique
<1> QED BY <1>1

-----------------------------------------------------------------------------
LEMMA EdgesRegular ==
  GraphInv /\ EdgeInv /\ (GenerateER \/ GenerateRegular \/ GenerateMatrix) => EdgeInv'
<1> SUFFICES ASSUME GraphInv, EdgeInv, GenerateER \/ GenerateRegular \/ GenerateMatrix
             PROVE  EdgeInv'
  OBVIOUS
<1>1. /\ UNCHANGED <<domain, seeds, rings, added>> /\ domain \in Domains /\ ~Rejected(domain)
      /\ domain.n \in Nat /\ domain.n > 0 /\ Nodes = 0..(domain.n - 1)
      /\ domain.rows \in Int /\ domain.columns \in Int
      /\ PairsOf(domain) = Clique(Nodes)
  <2>1. UNCHANGED <<domain, seeds, rings, added>> /\ domain \in Domains /\ ~Rejected(domain)
    BY DEF GraphInv, GenerateER, GenerateRegular, GenerateMatrix, Accept, drsVars
  <2>2. PairsOf(domain) = Clique(Nodes)
    BY <2>1, Declared, PairsAreClique DEF Nodes
  <2> QED BY <2>1, <2>2, Declared, NotRejected
<1>2. CASE GenerateER
  <2>1. PICK E \in ERGraphs(domain) : Return(E)
    BY <1>2 DEF GenerateER
  <2>2. E \subseteq Clique(Nodes)
    BY <1>1 DEF ERGraphs
  <2>3. domain.model = "er"
    BY <1>2 DEF GenerateER, Accept
  <2> QED BY <1>1, <2>1, <2>2, <2>3, EdgesReturned
<1>3. CASE Accept("ring") /\ Return(RingEdges(domain.n))
  <2>1. domain.n >= 3 /\ domain.model = "ring"
    BY <1>1, <1>3 DEF Rejected, Accept
  <2>2. RingEdges(domain.n) \subseteq Clique(Nodes) /\ Cardinality(RingEdges(domain.n)) = domain.n
    BY <1>1, <2>1, RingCount
  <2> QED BY <1>1, <1>3, <2>1, <2>2, EdgesReturned DEF Owed
<1>4. CASE Accept("path") /\ Return(PathEdges(domain.n))
  <2>1. domain.model = "path"
    BY <1>4 DEF Accept
  <2>2. /\ PathEdges(domain.n) \subseteq Clique(Nodes)
        /\ Cardinality(PathEdges(domain.n)) = domain.n - 1
    BY <1>1, PathCount
  <2> QED BY <1>1, <1>4, <2>1, <2>2, EdgesReturned DEF Owed
<1>5. CASE Accept("complete") /\ Return(PairsOf(domain))
  <2>1. domain.model = "complete"
    BY <1>5 DEF Accept
  <2>2. Cardinality(Nodes) = domain.n /\ IsFiniteSet(Nodes)
    <3>1. 0 \in Int /\ domain.n - 1 \in Int /\ 0 <= (domain.n - 1) + 1
          /\ (domain.n - 1) - 0 + 1 = domain.n
      BY <1>1
    <3> QED BY <1>1, <3>1, CountUpTo
  <2>3. Cardinality(Clique(Nodes)) = Choose2(domain.n)
    <3>1. Cardinality(Clique(Nodes)) = Choose2(Cardinality(Nodes))
      BY <2>2, CliqueCount
    <3> QED BY <2>2, <3>1
  <2> QED BY <1>1, <1>5, <2>1, <2>3, EdgesReturned DEF Owed
<1>6. CASE Accept("grid") /\ Return(GridEdges(domain.n, Columns(domain)))
  <2>1. domain.model = "grid" /\ ~GridRejected(domain)
    BY <1>1, <1>6, NotRejected DEF Accept
  <2> DEFINE r == Rows(domain)
             c == Columns(domain)
  <2>2. c \in Nat /\ c > 0 /\ r * c = domain.n
    BY <1>1, <2>1, GridHasColumns DEF GridRejected
  <2>3. r \in Nat /\ r > 0
    <3>1. r \in Int
      BY <1>1 DEF Rows
    <3> HIDE DEF r, c
    <3> QED BY <1>1, <2>2, <3>1
  <2> HIDE DEF r, c
  <2>4. /\ GridEdges(domain.n, c) \subseteq Clique(Nodes)
        /\ Cardinality(GridEdges(domain.n, c)) = r * (c - 1) + (r - 1) * c
    BY <1>1, <2>2, <2>3, GridCount
  <2>5. Owed(domain) = r * (c - 1) + (r - 1) * c
    BY <2>1 DEF Owed, r, c
  <2>6. Return(GridEdges(domain.n, c))
    BY <1>6 DEF c
  <2> QED BY <1>1, <2>4, <2>5, <2>6, EdgesReturned
<1>7. CASE Accept("matrix") /\ Return({{x[1], x[2]} : x \in domain.matrix})
  <2>1. domain.model = "matrix" /\ ~MatrixRejected(domain)
    BY <1>1, <1>7 DEF Accept, Rejected
  <2>2. domain.matrix \in SUBSET (Nodes \X Nodes)
    <3>1. DomainType(domain)
      BY <1>1, TopologyAssumption
    <3> QED BY <3>1 DEF DomainType, Nodes
  <2>3. /\ \A i \in Nodes : <<i, i>> \notin domain.matrix
        /\ \A x \in domain.matrix : <<x[2], x[1]>> \in domain.matrix
    BY <2>1 DEF MatrixRejected, Nodes
  <2>4. /\ {{x[1], x[2]} : x \in domain.matrix} \subseteq Clique(Nodes)
        /\ Cardinality({{x[1], x[2]} : x \in domain.matrix}) = Cardinality(domain.matrix) \div 2
    BY <1>1, <2>2, <2>3, MatrixCount
  <2> QED BY <1>1, <1>7, <2>1, <2>4, EdgesReturned DEF Owed
<1> QED BY <1>2, <1>3, <1>4, <1>5, <1>6, <1>7 DEF GenerateRegular, GenerateMatrix

(* Barabasi-Albert.                                                        *)
LEMMA CliqueGrown ==
  ASSUME domain.n \in Nat, NEW m \in Nat, NEW T \in SUBSET Nodes, Cardinality(T) = m + 1
  PROVE  Grown(Clique(T), T, m)
<1>1. IsFiniteSet(Nodes)
  BY NodesAreFinite
<1>2. Cardinality(Clique(T)) = Choose2(m + 1)
  BY <1>1, CliqueCount
<1>3. Choose2(m + 1) \in Int
  <2>1. m + 1 \in Nat
    OBVIOUS
  <2> QED BY <2>1, Choose2Next
<1> DEFINE a == Choose2(m + 1)
<1> HIDE DEF a
<1>4. m * (m + 1 - (m + 1)) = 0
  OBVIOUS
<1>5. Cardinality(Clique(T)) = a + m * (Cardinality(T) - (m + 1))
  <2>1. m * (Cardinality(T) - (m + 1)) = 0
    BY <1>4
  <2>2. a \in Int /\ Cardinality(Clique(T)) = a
    BY <1>2, <1>3 DEF a
  <2> QED BY <2>1, <2>2
<1> QED BY <1>5 DEF Grown, a

LEMMA JoiningGrown ==
  ASSUME domain.n \in Nat, NEW m \in Nat, NEW D \in SUBSET Nodes, NEW E, Grown(E, D, m),
         NEW node \in Nodes \ D, NEW S \in SUBSET D, Cardinality(S) = m
  PROVE  Grown(E \cup {{node, target} : target \in S}, D \cup {node}, m)
<1> DEFINE star == {{node, target} : target \in S}
<1>1. IsFiniteSet(D) /\ Cardinality(D) \in Nat /\ IsFiniteSet(S)
  BY NodesAreFinite
<1>2. IsFiniteSet(star) /\ Cardinality(star) = m
  BY <1>1, StarCount DEF Star
<1>3. E \cap star = {}
  <2> SUFFICES ASSUME NEW e \in E, NEW t \in S, e = {node, t} PROVE FALSE
    OBVIOUS
  <2>1. e \subseteq D
    BY DEF Grown, Clique
  <2> QED BY <2>1
<1>4. IsFiniteSet(E) /\ Cardinality(E) \in Nat
  <2>1. E \subseteq Clique(Nodes)
    BY DEF Grown, Clique
  <2> QED BY <2>1, EdgesAreFinite
<1>5. E \cup star \subseteq Clique(D \cup {node})
  <2>1. E \subseteq Clique(D \cup {node})
    BY DEF Grown, Clique
  <2> DEFINE N == D \cup {node}
  <2>2. S \in SUBSET (N \ {node}) /\ node \in N
    OBVIOUS
  <2> HIDE DEF N
  <2>3. star \subseteq Clique(N)
    BY <2>2, StarInClique
  <2> HIDE DEF star
  <2> QED BY <2>1, <2>3 DEF N
<1> HIDE DEF star
<1>6. Cardinality(E \cup star) = Cardinality(E) + m
  BY <1>2, <1>3, <1>4, DisjointCount
<1>7. Cardinality(D \cup {node}) = Cardinality(D) + 1
  BY <1>1, FS_AddElement
<1> DEFINE a == Choose2(m + 1)
           j == Cardinality(D)
<1>8. a \in Int /\ j \in Nat
  <2>1. m + 1 \in Nat
    OBVIOUS
  <2> QED BY <1>1, <2>1, Choose2Next
<1>9. Cardinality(E) = a + m * (j - (m + 1))
  BY DEF Grown
<1> HIDE DEF a, j
<1>10. m * ((j + 1) - (m + 1)) = m * (j - (m + 1)) + m /\ m * (j - (m + 1)) \in Int
  BY <1>8
<1>11. Cardinality(E \cup star) = a + m * ((j + 1) - (m + 1))
  <2> DEFINE y == m * (j - (m + 1))
  <2>1. y \in Int /\ Cardinality(E \cup star) = a + y + m
    BY <1>6, <1>9, <1>10
  <2>2. m * ((j + 1) - (m + 1)) = y + m
    BY <1>10
  <2> HIDE DEF y
  <2> QED BY <1>8, <2>1, <2>2
<1> QED BY <1>5, <1>7, <1>11 DEF Grown, a, j, star

LEMMA EdgesSeeds ==
  GraphInv /\ LinkInv /\ EdgeInv /\ (StartBA \/ StartOpportunistic \/ PickSeed) => EdgeInv'
<1> SUFFICES ASSUME GraphInv, LinkInv, EdgeInv, StartBA \/ StartOpportunistic \/ PickSeed
             PROVE  EdgeInv'
  OBVIOUS
<1>1. /\ UNCHANGED <<domain, generated, rings, added>> /\ domain \in Domains
      /\ ~Rejected(domain) /\ domain.model \in {"ba", "ba-opportunistic"}
  BY DEF GraphInv, PhaseFits, StartBA, StartOpportunistic, PickSeed, Accept, drsVars
<1>2. /\ domain.n \in Nat /\ Nodes = 0..(domain.n - 1) /\ domain.m \in Nat
      /\ domain.m > 0 /\ domain.m < domain.n
  BY <1>1, Declared, NotRejected DEF BARejected
<1>3. /\ edges \subseteq Clique(Nodes) /\ seeds \in SUBSET Nodes /\ added \in [Rings -> Nat]
      /\ \A r \in Rings : ToSet(rings[r]) \subseteq Nodes
  BY <1>1, TypeParts DEF EdgeInv
<1>4. ASSUME seeds' \in SUBSET Nodes, Cardinality(seeds') = domain.m + 1, phase' = "attach",
             edges' = Clique(seeds'), todo' = Nodes \ seeds'
      PROVE  EdgeInv'
  <2>1. Nodes \ todo' = seeds'
    BY <1>4
  <2>2. Grown(edges', Nodes \ todo', domain.m)
    BY <1>2, <1>4, <2>1, CliqueGrown
  <2> QED BY <1>1, <1>4, <2>2, EdgesGrown
<1>5. CASE StartBA
  <2>1. seeds' = 0..domain.m /\ 0..domain.m \in SUBSET Nodes
    BY <1>2, <1>5 DEF StartBA
  <2>2. Cardinality(0..domain.m) = domain.m + 1
    <3>1. 0 \in Int /\ domain.m \in Int /\ 0 <= domain.m + 1 /\ domain.m - 0 + 1 = domain.m + 1
      BY <1>2
    <3> QED BY <3>1, CountUpTo
  <2>3. phase' = "attach" /\ edges' = Clique(seeds') /\ todo' = Nodes \ seeds'
    BY <1>5 DEF StartBA
  <2> QED BY <1>4, <2>1, <2>2, <2>3
<1>6. CASE StartOpportunistic
  <2>1. phase' = "clique" /\ UNCHANGED <<edges, seeds>>
    BY <1>6 DEF StartOpportunistic
  <2> QED BY <1>1, <1>3, <2>1, EdgesOnTheWay DEF Phases
<1>7. CASE PickSeed
  <2>1. /\ phase = "clique" /\ seeds' = seeds \cup {BestSeed}
        /\ baseline \in domain.baselines /\ linkDelay \in domain.linkDelays
        /\ Cardinality(seeds) <= domain.m
    BY <1>7 DEF PickSeed, LinkInv
  <2>2. IsFiniteSet(seeds) /\ Cardinality(seeds) \in Nat
    BY <1>2, <1>3, NodesAreFinite
  <2>3. Nodes \ seeds # {}
    <3> SUFFICES ASSUME Nodes \subseteq seeds PROVE FALSE
      OBVIOUS
    <3>1. seeds = 0..(domain.n - 1)
      BY <1>2, <1>3
    <3>2. 0 \in Int /\ domain.n - 1 \in Int /\ 0 <= (domain.n - 1) + 1
          /\ (domain.n - 1) - 0 + 1 = domain.n
      BY <1>2
    <3>3. Cardinality(seeds) = domain.n
      BY <3>1, <3>2, CountUpTo
    <3> QED BY <1>2, <2>1, <3>3
  <2>4. BestSeed \in Nodes \ seeds
    BY <1>1, <1>3, <2>1, <2>3, BestSeedIsNode
  <2>5. seeds' \in SUBSET Nodes
    BY <1>3, <2>1, <2>4
  <2>6. Cardinality(seeds') = Cardinality(seeds) + 1
    BY <2>1, <2>2, <2>4, FS_AddElement
  <2>7. CASE Cardinality(seeds') > domain.m
    <3>1. edges' = Clique(seeds') /\ todo' = Nodes \ seeds' /\ phase' = "attach"
      BY <1>7, <2>7 DEF PickSeed
    <3>2. Cardinality(seeds') = domain.m + 1
      BY <1>2, <2>1, <2>2, <2>6, <2>7
    <3> QED BY <1>4, <2>5, <3>1, <3>2
  <2>8. CASE ~ (Cardinality(seeds') > domain.m)
    <3>1. phase' = "clique" /\ UNCHANGED edges
      BY <1>7, <2>1, <2>8 DEF PickSeed
    <3> QED BY <1>1, <1>3, <2>5, <3>1, EdgesOnTheWay DEF Phases
  <2> QED BY <2>7, <2>8
<1> QED BY <1>5, <1>6, <1>7

LEMMA EdgesAttached == GraphInv /\ EdgeInv /\ (Attach \/ Attached) => EdgeInv'
<1> SUFFICES ASSUME GraphInv, EdgeInv, Attach \/ Attached PROVE EdgeInv'
  OBVIOUS
<1>1. /\ UNCHANGED <<domain, seeds, rings, added>> /\ ~Rejected(domain) /\ phase = "attach"
      /\ domain \in Domains /\ domain.model \in {"ba", "ba-opportunistic"}
      /\ todo \subseteq Nodes /\ seeds \subseteq Nodes
      /\ Grown(edges, Nodes \ todo, domain.m)
  BY DEF Attach, Attached, GraphInv, EdgeInv, TypeOK, PhaseFits, drsVars
<1>2. /\ domain.n \in Nat /\ Nodes = 0..(domain.n - 1) /\ domain.m \in Nat
      /\ Nodes \subseteq Nat
  BY <1>1, Declared, NotRejected DEF BARejected
<1>3. CASE Attach
  <2> DEFINE node == FirstOf(todo)
             before == Nodes \ todo
  <2>1. node \in todo
    BY <1>1, <1>2, <1>3, FirstIsMember DEF Attach
  <2> HIDE DEF node
  <2>2. PICK S \in Targets(before, domain.m) :
          edges' = edges \cup {{node, target} : target \in S}
    BY <1>3 DEF Attach, node
  <2>3. S \in SUBSET before /\ Cardinality(S) = domain.m
    BY <2>2 DEF Targets, Subsets
  <2>4. node \in Nodes \ before /\ before \in SUBSET Nodes
    BY <1>1, <2>1
  <2>5. Grown(edges', before \cup {node}, domain.m)
    <3> HIDE DEF before
    <3>1. Grown(edges, before, domain.m)
      BY <1>1 DEF before
    <3> QED BY <1>2, <2>2, <2>3, <2>4, <3>1, JoiningGrown
  <2>6. todo' = todo \ {node} /\ phase' = "attach" /\ UNCHANGED generated
    BY <1>1, <1>3 DEF Attach, node
  <2>7. Nodes \ todo' = before \cup {node}
    BY <1>1, <2>1, <2>6
  <2> QED BY <1>1, <2>5, <2>6, <2>7, EdgesGrown
<1>4. CASE Attached
  <2>1. Return(edges) /\ Nodes \ todo = Nodes
    BY <1>4 DEF Attached
  <2>2. edges \subseteq Clique(Nodes)
    BY <1>1 DEF Grown, Clique
  <2>3. Cardinality(Nodes) = domain.n
    <3>1. 0 \in Int /\ domain.n - 1 \in Int /\ 0 <= (domain.n - 1) + 1
          /\ (domain.n - 1) - 0 + 1 = domain.n
      BY <1>2
    <3> QED BY <1>2, <3>1, CountUpTo
  <2>4. Cardinality(edges) = Choose2(domain.m + 1) + domain.m * (domain.n - (domain.m + 1))
    BY <1>1, <2>1, <2>3 DEF Grown
  <2>5. domain.n - (domain.m + 1) = domain.n - domain.m - 1
    BY <1>2
  <2>6. Cardinality(edges) = Owed(domain)
    BY <1>1, <2>4, <2>5 DEF Owed
  <2> QED BY <1>1, <2>1, <2>2, <2>6, EdgesReturned
<1> QED BY <1>3, <1>4

(* Double-ring small world.                                                *)
LEMMA ChordIsPair ==
  ASSUME NEW ring, SimpleRing(ring), NEW N, ToSet(ring) \subseteq N,
         NEW distance \in 1..(Len(ring) - 1), NEW i \in 1..Len(ring)
  PROVE  Chord(ring, distance, i) \in Clique(N)
<1> DEFINE k == Len(ring)
           a == i + distance - 1
           j == 1 + (a % k)
<1>1. /\ k \in Nat /\ k > 1 /\ ring \in [1..k -> ToSet(ring)]
      /\ \A p, q \in 1..k : p # q => ring[p] # ring[q]
  BY DEF SimpleRing
<1> HIDE DEF k
<1>2. /\ i \in Nat /\ 1 <= i /\ i <= k /\ distance \in Nat /\ 1 <= distance /\ distance < k
      /\ a \in Nat /\ a < 2 * k
  BY <1>1 DEF k
<1> HIDE DEF a
<1>3. a % k = IF a < k THEN a ELSE a - k
  <2>1. k > 0
    BY <1>1
  <2> QED BY <1>1, <1>2, <2>1, ModOnce
<1>4. j \in 1..k /\ j # i
  <2> DEFINE m == a % k
  <2>1. m = IF a < k THEN a ELSE a - k
    BY <1>3
  <2> HIDE DEF m
  <2> QED BY <1>1, <1>2, <2>1 DEF a, m
<1>5. Chord(ring, distance, i) = {ring[i], ring[j]}
  BY DEF Chord, a, k
<1> HIDE DEF j
<1>6. ring[i] \in N /\ ring[j] \in N /\ ring[i] # ring[j]
  BY <1>1, <1>2, <1>4
<1> QED BY <1>5, <1>6, PairInClique

LEMMA BackboneIsPairs ==
  ASSUME NEW ring, SimpleRing(ring), NEW N, ToSet(ring) \subseteq N
  PROVE  Backbone(ring) \subseteq Clique(N)
<1> SUFFICES ASSUME NEW i \in 1..Len(ring) PROVE Chord(ring, 1, i) \in Clique(N)
  BY DEF Backbone
<1>1. 1 \in 1..(Len(ring) - 1)
  BY DEF SimpleRing
<1> QED BY <1>1, ChordIsPair

LEMMA EdgesDRSStarts == GraphInv /\ EdgeInv /\ StartDRS => EdgeInv'
<1> SUFFICES ASSUME GraphInv, EdgeInv, StartDRS PROVE EdgeInv'
  OBVIOUS
<1> Nodes' = Nodes
  BY DEF Nodes, StartDRS
<1>1. /\ UNCHANGED <<domain, generated, seeds, added>> /\ domain \in Domains
      /\ phase' = "access" /\ seeds \subseteq Nodes /\ added \in [Rings -> Nat]
  BY DEF StartDRS, EdgeInv, TypeOK
<1>2. LinkInv'
  BY LinkDRSStarts
<1>3. /\ SimpleRing(rings'.inner) /\ SimpleRing(rings'.outer)
      /\ ToSet(rings'.inner) \subseteq Nodes /\ ToSet(rings'.outer) \subseteq Nodes
  <2>1. DRSLinks(rings, phase, todo, edges, candidates)'
    BY <1>1, <1>2 DEF LinkInv
  <2> QED BY <2>1 DEF DRSLinks
<1>4. edges' = Backbone(rings'.inner) \cup Backbone(rings'.outer)
  BY DEF StartDRS
<1>5. edges' \subseteq Clique(Nodes)
  BY <1>3, <1>4, BackboneIsPairs
<1>6. \A r \in Rings : ToSet(rings'[r]) \subseteq Nodes
  BY <1>3 DEF Rings
<1> QED BY <1>1, <1>5, <1>6, EdgesOnTheWay DEF Phases

LEMMA EdgesDRS ==
  GraphInv /\ LinkInv /\ EdgeInv /\ (AddAccess \/ AddShortcuts \/ PlanFill \/ Fill \/ Filled)
    => EdgeInv'
<1> SUFFICES ASSUME GraphInv, LinkInv, EdgeInv,
                    AddAccess \/ AddShortcuts \/ PlanFill \/ Fill \/ Filled
             PROVE  EdgeInv'
  OBVIOUS
<1>1. /\ UNCHANGED <<domain, rings, seeds>> /\ ~Rejected(domain) /\ domain.model = "drs"
      /\ domain \in Domains /\ domain.n \in Nat
      /\ phase \in {"access", "shortcuts", "fill"}
  BY Declared DEF AddAccess, AddShortcuts, PlanFill, Fill, Filled, GraphInv, PhaseFits, drsVars
<1>2. /\ edges \subseteq Clique(Nodes) /\ seeds \subseteq Nodes /\ added \in [Rings -> Nat]
      /\ \A r \in Rings : ToSet(rings[r]) \subseteq Nodes
      /\ phase = "fill" => Cardinality(edges) <= TargetEdges(domain)
  BY <1>1, TypeParts DEF EdgeInv
<1>3. IsFiniteSet(edges) /\ Cardinality(edges) \in Nat
  BY <1>1, <1>2, EdgesAreFinite
<1>4. TargetEdges(domain) \in Int
  <2>1. domain.k \in Int /\ domain.n \in Int
    BY <1>1, Declared
  <2> DEFINE y == domain.n * domain.k
  <2>2. y \in Int
    BY <2>1
  <2> HIDE DEF y
  <2>3. y \div 2 \in Int
    BY <2>2
  <2> QED BY <2>3 DEF TargetEdges, y
<1>5. DRSLinks(rings, phase, todo, edges, candidates)
  BY <1>1 DEF LinkInv
<1>6. ToSet(rings.inner) \subseteq Nodes /\ ToSet(rings.inner) \cap ToSet(rings.outer) = {}
  BY <1>5 DEF DRSLinks, SmallWorld
<1>7. CASE AddAccess
  <2> DEFINE node == FirstOf(todo)
  <2>1. /\ UNCHANGED <<generated, added>> /\ phase = "access"
        /\ phase' \in {"access", "shortcuts"}
        /\ todo # {} /\ todo \subseteq ToSet(rings.outer)
    BY <1>5, <1>7 DEF AddAccess, DRSLinks, drsVars
  <2>2. node \in todo
    <3>1. todo \subseteq Nat
      BY <1>1, <1>2, <2>1, Declared DEF Rings
    <3> QED BY <2>1, <3>1, FirstIsMember
  <2> HIDE DEF node
  <2>3. PICK S \in Subsets(ToSet(rings.inner), Beta(domain)) :
          edges' = edges \cup {{node, target} : target \in S}
    BY <1>7 DEF AddAccess, node
  <2>4. node \in Nodes /\ S \in SUBSET (Nodes \ {node})
    <3>1. node \in ToSet(rings.outer) /\ S \subseteq ToSet(rings.inner)
      BY <2>1, <2>2, <2>3 DEF Subsets
    <3>2. ToSet(rings.outer) \subseteq Nodes
      BY <1>2 DEF Rings
    <3> QED BY <1>6, <3>1, <3>2
  <2>5. edges' \subseteq Clique(Nodes)
    BY <1>2, <2>3, <2>4, StarInClique
  <2> QED BY <1>1, <1>2, <2>1, <2>5, EdgesOnTheWay DEF Phases
<1>8. CASE AddShortcuts
  <2>1. /\ UNCHANGED <<generated, added>> /\ phase = "shortcuts"
        /\ phase' \in {"noTargets", "shortcuts"} /\ todo \subseteq ToSet(rings.inner)
    BY <1>5, <1>8 DEF AddShortcuts, DRSLinks, drsVars
  <2>2. edges' \subseteq Clique(Nodes)
    <3>1. CASE edges' = edges
      BY <1>2, <3>1
    <3>2. CASE edges' # edges
      <4>1. PICK node \in todo :
              \E S \in Subsets(ShortcutTargets(node), Need(node)) :
                edges' = edges \cup {{node, target} : target \in S}
        BY <1>8, <3>2 DEF AddShortcuts
      <4>2. PICK S \in Subsets(ShortcutTargets(node), Need(node)) :
              edges' = edges \cup {{node, target} : target \in S}
        BY <4>1
      <4>3. node \in Nodes /\ S \in SUBSET (Nodes \ {node})
        BY <1>6, <2>1, <4>1, <4>2 DEF Subsets, ShortcutTargets
      <4> QED BY <1>2, <4>2, <4>3, StarInClique
    <3> QED BY <3>1, <3>2
  <2> QED BY <1>1, <1>2, <2>1, <2>2, EdgesOnTheWay DEF Phases
<1>9. CASE PlanFill
  <2>1. /\ UNCHANGED <<edges, generated, added>>
        /\ \/ phase' = "overBudget"
           \/ phase' = "fill" /\ ~ (Cardinality(edges) > TargetEdges(domain))
    BY <1>9 DEF PlanFill
  <2>2. phase' = "fill" => Cardinality(edges') <= TargetEdges(domain)
    BY <1>3, <1>4, <2>1
  <2> QED BY <1>1, <1>2, <2>1, <2>2, EdgesOnTheWay DEF Phases
<1>10. CASE Fill
  <2> DEFINE r == NextRing
             x == FirstPair(candidates[r])
             chord == Chord(rings[r], x[1], x[2])
  <2>1. /\ phase = "fill" /\ phase' = "fill" /\ UNCHANGED generated
        /\ Available("inner") \/ Available("outer")
        /\ Cardinality(edges) < TargetEdges(domain)
        /\ \/ UNCHANGED <<edges, added>>
           \/ /\ edges' = edges \cup {chord}
              /\ added' = [added EXCEPT ![r] = @ + 1]
    BY <1>10 DEF Fill
  <2>2. r \in Rings /\ candidates[r] # {}
    BY <2>1 DEF NextRing, Available, Rings
  <2>3. DRSLinks(rings, "fill", todo, edges, candidates)
    BY <1>5, <2>1
  <2>4. /\ SimpleRing(rings[r]) /\ ToSet(rings[r]) \subseteq Nodes
        /\ candidates[r] \subseteq (1..(Len(rings[r]) - 1)) \X (1..Len(rings[r]))
    BY <1>2, <2>2, <2>3 DEF DRSLinks, Rings
  <2>5. x \in (1..(Len(rings[r]) - 1)) \X (1..Len(rings[r]))
    <3>1. Len(rings[r]) \in Nat
      BY <2>4 DEF SimpleRing
    <3>2. candidates[r] \subseteq Nat \X Nat
      BY <2>4, <3>1
    <3>3. x \in candidates[r]
      BY <2>2, <3>2, FirstPairIsMember
    <3> QED BY <2>4, <3>3
  <2> HIDE DEF r, x
  <2>6. chord \in Clique(Nodes)
    <3>1. x[1] \in 1..(Len(rings[r]) - 1) /\ x[2] \in 1..Len(rings[r])
      BY <2>5
    <3> QED BY <2>4, <3>1, ChordIsPair
  <2> HIDE DEF chord
  <2>7. edges' \subseteq Clique(Nodes) /\ added' \in [Rings -> Nat]
    BY <1>2, <2>1, <2>2, <2>6
  <2>8. Cardinality(edges') <= TargetEdges(domain)
    <3>1. CASE edges' = edges
      BY <1>2, <2>1, <3>1
    <3>2. CASE edges' = edges \cup {chord}
      <4>1. Cardinality(edges') = Cardinality(edges)
              \/ Cardinality(edges') = Cardinality(edges) + 1
        BY <1>3, <3>2, FS_AddElement
      <4> QED BY <1>3, <1>4, <2>1, <4>1
    <3> QED BY <2>1, <3>1, <3>2
  <2> QED BY <1>1, <1>2, <2>1, <2>7, <2>8, EdgesOnTheWay DEF Phases
<1>11. CASE Filled
  <2>1. /\ phase = "fill" /\ UNCHANGED added
        /\ \/ Cardinality(edges) >= TargetEdges(domain) /\ Return(edges)
           \/ phase' = "underBudget" /\ UNCHANGED <<edges, generated>>
    BY <1>11 DEF Filled, drsVars
  <2>2. CASE Cardinality(edges) >= TargetEdges(domain) /\ Return(edges)
    <3>1. Cardinality(edges) = TargetEdges(domain)
      BY <1>2, <1>3, <1>4, <2>1, <2>2
    <3>2. Cardinality(edges) = Owed(domain)
      BY <1>1, <3>1 DEF Owed
    <3> QED BY <1>1, <1>2, <2>1, <2>2, <3>2, EdgesReturned
  <2>3. CASE phase' = "underBudget" /\ UNCHANGED <<edges, generated>>
    BY <1>1, <1>2, <2>1, <2>3, EdgesOnTheWay DEF Phases
  <2> QED BY <2>1, <2>2, <2>3
<1> QED BY <1>7, <1>8, <1>9, <1>10, <1>11

(* Watts-Strogatz: as many edges as positions.                             *)
LEMMA OwnedCount ==
  ASSUME domain \in Domains, ~Rejected(domain), domain.model = "ws",
         NEW own, NEW turns, NEW E, Owns(own, turns, E)
  PROVE  Cardinality(E) = TargetEdges(domain)
<1>1. /\ domain.n \in Nat /\ domain.n > 0 /\ Nodes = 0..(domain.n - 1)
      /\ domain.k \in Int /\ domain.k > 0 /\ domain.k % 2 = 0
  BY Declared, NotRejected DEF LatticeRejected
<1> DEFINE h == domain.k \div 2
<1>2. h \in Nat /\ domain.k = 2 * h
  BY <1>1
<1> HIDE DEF h
<1>3. own \in Bijection(Positions, E)
  BY DEF Owns, Bijection, Injection, IsInjective, Surjection
<1>4. IsFiniteSet(Positions) /\ Cardinality(Positions) = domain.n * h
  <2>1. IsFiniteSet(Nodes) /\ Cardinality(Nodes) = domain.n
    <3>1. 0 \in Int /\ domain.n - 1 \in Int /\ 0 <= (domain.n - 1) + 1
          /\ (domain.n - 1) - 0 + 1 = domain.n
      BY <1>1
    <3> QED BY <1>1, <3>1, CountUpTo
  <2>2. IsFiniteSet(1..h) /\ Cardinality(1..h) = h
    <3>1. 1 \in Int /\ h \in Int /\ 1 <= h + 1 /\ h - 1 + 1 = h
      BY <1>2
    <3> QED BY <3>1, CountUpTo
  <2>3. Positions = Nodes \X (1..h)
    BY DEF Positions, h
  <2> DEFINE steps == 1..h
  <2>4. IsFiniteSet(steps) /\ Cardinality(steps) = h /\ Positions = Nodes \X steps
    BY <2>2, <2>3
  <2> HIDE DEF steps
  <2>5. Cardinality(Nodes \X steps) = Cardinality(Nodes) * Cardinality(steps)
        /\ IsFiniteSet(Nodes \X steps)
    BY <2>1, <2>4, FS_Product
  <2> QED BY <2>1, <2>4, <2>5
<1>5. Cardinality(E) = domain.n * h
  BY <1>3, <1>4, FS_Bijection DEF ExistsBijection
<1>6. (domain.n * domain.k) \div 2 = domain.n * h
  <2> DEFINE y == domain.n * h
  <2>1. y \in Int /\ domain.n * domain.k = 2 * y
    BY <1>1, <1>2
  <2> HIDE DEF y
  <2>2. (2 * y) \div 2 = y
    BY <2>1
  <2> QED BY <2>1, <2>2 DEF y
<1> QED BY <1>5, <1>6 DEF TargetEdges

LEMMA EdgesWS == GraphInv /\ LinkInv /\ EdgeInv /\ (StartWS \/ Rewire \/ Rewired) => EdgeInv'
<1> SUFFICES ASSUME GraphInv, LinkInv, EdgeInv, StartWS \/ Rewire \/ Rewired PROVE EdgeInv'
  OBVIOUS
<1>1. /\ UNCHANGED <<domain, rings, seeds, added>> /\ ~Rejected(domain) /\ domain.model = "ws"
      /\ domain \in Domains /\ domain.n \in Nat /\ Nodes = 0..(domain.n - 1)
  BY Declared DEF StartWS, Rewire, Rewired, Accept, GraphInv, PhaseFits, drsVars
<1>2. /\ edges \subseteq Clique(Nodes) /\ seeds \subseteq Nodes /\ added \in [Rings -> Nat]
      /\ \A r \in Rings : ToSet(rings[r]) \subseteq Nodes
  BY <1>1, TypeParts DEF EdgeInv
<1>3. CASE StartWS
  <2>1. phase' = "rewire" /\ UNCHANGED generated
    BY <1>3 DEF StartWS
  <2>2. ASSUME NEW e \in edges' PROVE e \in Clique(Nodes)
    <3>1. PICK i \in Nodes, distance \in 1..(domain.k \div 2) :
            e = {i, (i + distance) % domain.n}
      BY <1>3 DEF StartWS
    <3>2. <<i, distance>> \in Positions
      BY DEF Positions
    <3>3. (i + distance) % domain.n \in Nodes /\ (i + distance) % domain.n # i
      BY <1>1, <3>2, LatticeIsSimple
    <3> QED BY <3>1, <3>3, PairInClique
  <2> QED BY <1>1, <1>2, <2>1, <2>2, EdgesOnTheWay DEF Phases
<1>4. CASE Rewire
  <2> DEFINE x == FirstPair(todo)
  <2>1. phase = "rewire" /\ phase' = "rewire" /\ todo # {} /\ UNCHANGED generated
    BY <1>4 DEF Rewire
  <2>2. x[1] \in Nodes
    <3>1. todo \subseteq Nodes \X Nat /\ todo \subseteq Nat \X Nat
      BY <1>1, <2>1 DEF GraphInv
    <3>2. x \in todo
      BY <2>1, <3>1, FirstPairIsMember
    <3> QED BY <3>1, <3>2
  <2>3. edges' \subseteq Clique(Nodes)
    <3>1. CASE edges' = edges
      BY <1>2, <3>1
    <3>2. CASE edges' # edges
      <4>1. PICK target \in RewireTargets(x[1]) :
              edges' = (edges \ {{x[1], (x[1] + x[2]) % domain.n}}) \cup {{x[1], target}}
        BY <1>4, <3>2 DEF Rewire
      <4> HIDE DEF x
      <4>2. target \in Nodes /\ target # x[1]
        BY DEF RewireTargets
      <4>3. {x[1], target} \in Clique(Nodes)
        BY <2>2, <4>2, PairInClique
      <4> QED BY <1>2, <4>1, <4>3
    <3> QED BY <3>1, <3>2
  <2> QED BY <1>1, <1>2, <2>1, <2>3, EdgesOnTheWay DEF Phases
<1>5. CASE Rewired
  <2>1. phase = "rewire" /\ Return(edges)
    BY <1>5 DEF Rewired
  <2>2. PICK own : Owns(own, todo, edges)
    BY <2>1 DEF LinkInv
  <2>3. Cardinality(edges) = Owed(domain)
    BY <1>1, <2>2, OwnedCount DEF Owed
  <2> QED BY <1>1, <1>2, <2>1, <2>3, EdgesReturned
<1> QED BY <1>3, <1>4, <1>5

LEMMA EdgesFinish == GraphInv /\ EdgeInv /\ Finish => EdgeInv'
<1> SUFFICES ASSUME GraphInv, EdgeInv, Finish PROVE EdgeInv'
  OBVIOUS
<1> Nodes' = Nodes
  BY DEF Nodes, Finish
<1>1. /\ UNCHANGED <<domain, rings, seeds, added, generated>> /\ ~Rejected(domain)
      /\ domain \in Domains /\ domain.n \in Nat /\ domain.n > 0
      /\ phase = "generated" /\ phase' = "done" /\ generated = edges
  BY Declared, NotRejected DEF Finish, GraphInv, EdgeInv, drsVars
<1>2. /\ edges \subseteq Clique(Nodes) /\ seeds \subseteq Nodes /\ added \in [Rings -> Nat]
      /\ \A r \in Rings : ToSet(rings[r]) \subseteq Nodes
  BY <1>1, TypeParts DEF EdgeInv
<1>3. IsFiniteSet(edges) /\ Cardinality(edges) \in Nat
  BY <1>1, <1>2, EdgesAreFinite
<1>4. Components(generated)' = Components(edges)
  BY <1>1 DEF Components
<1>5. CASE domain.ensureConnected /\ Cardinality(Components(edges)) > 1
  <2>1. PICK c \in Chains(Components(edges)) : edges' = edges \cup Links(c)
    BY <1>5 DEF Finish
  <2>2. /\ Links(c) \subseteq Clique(Nodes)
        /\ Cardinality(edges') = Cardinality(edges) + Cardinality(Components(edges)) - 1
    BY <1>1, <1>3, <1>5, <2>1, LinksCount
  <2>3. edges' \subseteq Clique(Nodes)
    BY <1>2, <2>1, <2>2
  <2>4. TypeOK'
    BY <1>1, <1>2, <2>3, TypePartsNext DEF Phases
  <2> QED BY <1>1, <1>4, <2>2, <2>4 DEF EdgeInv, EdgeBudget
<1>6. CASE ~ (domain.ensureConnected /\ Cardinality(Components(edges)) > 1)
  <2>1. edges' = edges
    <3>1. edges' = {e \in edges : Cardinality(e) = 2}
      BY <1>6 DEF Finish
    <3>2. \A e \in edges : Cardinality(e) = 2
      BY <1>2 DEF Clique
    <3> QED BY <3>1, <3>2
  <2>2. TypeOK'
    BY <1>1, <1>2, <2>1, TypePartsNext DEF Phases
  <2>3. domain.ensureConnected =>
          Cardinality(edges) = Cardinality(edges) + Cardinality(Components(edges)) - 1
    <3> SUFFICES ASSUME domain.ensureConnected
                 PROVE  Cardinality(edges) = Cardinality(edges) + Cardinality(Components(edges)) - 1
      OBVIOUS
    <3>1. edges \subseteq SUBSET Nodes
      BY <1>2 DEF Clique
    <3>2. Cardinality(Components(edges)) = 1
      BY <1>1, <1>6, <3>1, OnePart
    <3> QED BY <1>3, <3>2
  <2> QED BY <1>1, <1>4, <2>1, <2>2, <2>3 DEF EdgeInv, EdgeBudget
<1> QED BY <1>5, <1>6

LEMMA EdgeStep == GraphInv /\ LinkInv /\ EdgeInv /\ [Next]_vars => EdgeInv'
<1> SUFFICES ASSUME GraphInv, LinkInv, EdgeInv, [Next]_vars PROVE EdgeInv'
  OBVIOUS
<1>1. CASE UNCHANGED vars
  <2>1. TypeOK'
    BY <1>1 DEF EdgeInv, TypeOK, Nodes, vars, drsVars
  <2>2. EdgeBudget'
    <3>1. UNCHANGED <<domain, phase, edges, generated>>
      BY <1>1 DEF vars
    <3>2. Owed(domain)' = Owed(domain) /\ Components(generated)' = Components(generated)
      BY <3>1 DEF Owed, TargetEdges, Rows, Columns, Choose2, Components, Nodes
    <3> QED BY <3>1, <3>2 DEF EdgeInv, EdgeBudget
  <2>3. Nodes' = Nodes
    BY <1>1 DEF Nodes, vars
  <2> QED BY <1>1, <2>1, <2>2, <2>3 DEF EdgeInv, vars
<1>2. CASE Reject
  <2>1. /\ UNCHANGED <<domain, generated, edges, seeds, rings, added>> /\ phase' = "rejected"
        /\ domain \in Domains
    BY <1>2 DEF Reject, drsVars, GraphInv
  <2>2. /\ edges \subseteq Clique(Nodes) /\ seeds \subseteq Nodes /\ added \in [Rings -> Nat]
        /\ \A r \in Rings : ToSet(rings[r]) \subseteq Nodes
    BY <2>1, TypeParts DEF EdgeInv
  <2> QED BY <2>1, <2>2, EdgesOnTheWay DEF Phases
<1> QED BY <1>1, <1>2, EdgesRegular, EdgesSeeds, EdgesAttached, EdgesDRSStarts, EdgesDRS,
           EdgesWS, EdgesFinish DEF Next

(* Expansions of any size have exactly the edges of their model, whatever  *)
(* was drawn, rewired or skipped, and the repair adds one edge less than   *)
(* there are components.                                                   *)
THEOREM BudgetIsMet == Spec => []EdgeBudget
<1>1. EdgeInv => EdgeBudget
  BY DEF EdgeInv
<1>2. GraphInv /\ LinkInv /\ EdgeInv /\ [Next]_vars => GraphInv' /\ LinkInv' /\ EdgeInv'
  BY GraphStep, LinkStep, EdgeStep
<1> QED BY <1>1, <1>2, GraphInit, LinkInit, EdgeInit, PTL DEF Spec

(* Edges are pairs of two nodes and rings hold nodes, in every phase: no   *)
(* generator has made a self-loop that the normalization would drop.       *)
THEOREM TypeCorrect == Spec => []TypeOK
<1>1. EdgeInv => TypeOK
  BY DEF EdgeInv
<1>2. GraphInv /\ LinkInv /\ EdgeInv /\ [Next]_vars => GraphInv' /\ LinkInv' /\ EdgeInv'
  BY GraphStep, LinkStep, EdgeStep
<1> QED BY <1>1, <1>2, GraphInit, LinkInit, EdgeInit, PTL DEF Spec

(* What Flooding needs of the graph to reach everyone (its Connected):     *)
(* when the declaration or the model promises a connected graph, only the  *)
(* set of all nodes has the neighbors of all its members.                  *)
ReachesAll ==
  phase = "done" /\ (domain.ensureConnected \/ ByConstruction(domain.model)) =>
    \A S \in (SUBSET Nodes) \ {{}} : (\A v \in S : Neighbors(v) \subseteq S) => S = Nodes

(* A promised graph of any size fits the flooding of messages: from one    *)
(* node, neighbor by neighbor, every other one is reached.                 *)
THEOREM GraphsCarryMessages == Spec => []ReachesAll
<1>1. TypeOK /\ ConnectedWhenPromised => ReachesAll
  <2> SUFFICES ASSUME TypeOK, ConnectedWhenPromised, phase = "done",
                      domain.ensureConnected \/ ByConstruction(domain.model),
                      NEW S \in (SUBSET Nodes) \ {{}}, \A v \in S : Neighbors(v) \subseteq S
               PROVE  S = Nodes
    BY DEF ReachesAll
  <2>1. ASSUME NEW e \in edges, e \cap S # {} PROVE e \subseteq S
    <3>1. e \in PairsOf(domain)
      BY DEF TypeOK
    <3>2. PICK y \in NodesOf(domain) \X NodesOf(domain) : y[1] < y[2] /\ e = {y[1], y[2]}
      BY <3>1 DEF PairsOf
    <3>3. y[1] \in Nodes /\ y[2] \in Nodes /\ y[1] # y[2]
      <4>1. y[1] \in Int /\ y[2] \in Int
        BY <3>2 DEF NodesOf
      <4> QED BY <3>2, <4>1 DEF Nodes
    <3>4. {y[2], y[1]} \in edges /\ {y[1], y[2]} \in edges
      <4>1. {y[2], y[1]} = {y[1], y[2]}
        OBVIOUS
      <4> QED BY <3>2, <4>1
    <3>5. y[2] \in Neighbors(y[1]) /\ y[1] \in Neighbors(y[2])
      BY <3>3, <3>4 DEF Neighbors
    <3>6. y[1] \in S \/ y[2] \in S
      BY <2>1, <3>2
    <3> QED BY <3>2, <3>5, <3>6
  <2>2. Closed(S, edges)
    BY <2>1 DEF Closed
  <2> QED BY <2>2 DEF ConnectedWhenPromised, ByConstruction
<1> QED BY <1>1, TypeCorrect, PromisesAreKept, PTL
=============================================================================
