---------------------------- MODULE AggregateProofs ----------------------------
(***************************************************************************)
(* The summary agrees with what was recorded, for any number of peers,     *)
(* messages and events.                                                    *)
(*                                                                         *)
(* What holds of the files a run writes is inductive (FilesInv); what the  *)
(* code makes of them is an argument over their lines, one after the       *)
(* other, with the events read so far (Says).  Both recursions of the code *)
(* are instances of one lemma, whose step is a function and no operator    *)
(* (Recursion).                                                            *)
(***************************************************************************)
EXTENDS Aggregate, FiniteSetTheorems, WellFoundedInduction, TLAPS

(* What holds at 0 and is passed on to the next number holds up to k: the  *)
(* least number without it would have one before it.                       *)
LEMMA StepByStep ==
  ASSUME NEW k \in Nat, NEW B, 0 \in B, \A i \in 1..k : i - 1 \in B => i \in B
  PROVE  \A i \in 0..k : i \in B
<1> DEFINE R == OpToRel(<, Nat)
           Bad == {i \in 0..k : i \notin B}
<1>1. IsWellFoundedOn(R, Nat)
  BY NatLessThanWellFounded
<1>2. \A x, y \in Nat : <<y, x>> \in R <=> y < x
  BY DEF OpToRel
<1> SUFFICES ASSUME Bad # {} PROVE FALSE
  OBVIOUS
<1>3. Bad \subseteq Nat
  OBVIOUS
<1> HIDE DEF R
<1>4. PICK i \in Bad : \A y \in Bad : ~ (<<y, i>> \in R)
  <2> HIDE DEF Bad
  <2> QED BY <1>1, <1>3, WFMin
<1>5. i \in 1..k /\ i - 1 \in 0..k
  OBVIOUS
<1>6. i - 1 \in Bad
  BY <1>5
<1>7. i - 1 \in Nat /\ i \in Nat /\ i - 1 < i
  BY <1>5
<1> QED BY <1>2, <1>4, <1>6, <1>7

(* A recursion of k steps, whose step F is a function, has a solution.     *)
Steps(k, X) == [(1..k) \X X -> X]
Solves(a, k, X, x, F) ==
  /\ a \in [0..k -> X] /\ a[0] = x
  /\ \A i \in 1..k : a[i] = F[<<i, a[i - 1]>>]
Solvable(k, X, x, F) == \E a \in [0..k -> X] : Solves(a, k, X, x, F)

LEMMA SolutionGrows ==
  ASSUME NEW k \in Nat, NEW X, NEW x, NEW F \in Steps(k, X), NEW j \in 1..k,
         Solvable(j - 1, X, x, F)
  PROVE  Solvable(j, X, x, F)
<1>1. PICK a \in [0..(j - 1) -> X] : Solves(a, j - 1, X, x, F)
  BY DEF Solvable
<1> DEFINE z == a[j - 1]
           v == F[<<j, z>>]
           b == [i \in 0..j |-> IF i = j THEN v ELSE a[i]]
<1>2. z \in X
  OBVIOUS
<1>3. v \in X
  BY <1>2 DEF Steps
<1> HIDE DEF v
<1>4. b \in [0..j -> X] /\ b[0] = x
  BY <1>1, <1>3 DEF Solves
<1>5. ASSUME NEW i \in 1..j PROVE b[i] = F[<<i, b[i - 1]>>]
  <2>1. b[i - 1] = a[i - 1]
    OBVIOUS
  <2>2. CASE i = j
    <3>1. b[i] = v /\ b[i - 1] = z
      BY <2>1, <2>2
    <3> QED BY <2>2, <3>1 DEF v
  <2>3. CASE i # j
    <3>1. i \in 1..(j - 1) /\ b[i] = a[i]
      BY <2>3
    <3>2. a[i] = F[<<i, a[i - 1]>>]
      BY <1>1, <3>1 DEF Solves
    <3> QED BY <2>1, <3>1, <3>2
  <2> QED BY <2>2, <2>3
<1>6. Solves(b, j, X, x, F)
  <2> HIDE DEF b
  <2> QED BY <1>4, <1>5 DEF Solves
<1> QED BY <1>4, <1>6 DEF Solvable

LEMMA Recursion ==
  ASSUME NEW k \in Nat, NEW X, NEW x \in X, NEW F \in Steps(k, X)
  PROVE  Solvable(k, X, x, F)
<1> DEFINE B == {j \in 0..k : Solvable(j, X, x, F)}
<1>1. 0 \in B
  <2> DEFINE a == [j \in 0..0 |-> x]
  <2>1. a \in [0..0 -> X] /\ a[0] = x /\ 1..0 = {}
    OBVIOUS
  <2> HIDE DEF a
  <2>2. Solvable(0, X, x, F)
    BY <2>1 DEF Solvable, Solves
  <2> QED BY <2>2
<1>2. ASSUME NEW j \in 1..k, j - 1 \in B PROVE j \in B
  <2>1. Solvable(j, X, x, F)
    BY <1>2, SolutionGrows
  <2> QED BY <2>1
<1> HIDE DEF B
<1>3. \A j \in 0..k : j \in B
  BY <1>1, <1>2, StepByStep
<1> QED BY <1>3 DEF B

(* A nonempty set of numbers below a bound has a greatest one.             *)
LEMMA MaxIsGreatest ==
  ASSUME NEW k \in Nat, NEW A \in SUBSET (0..k), A # {}
  PROVE  Max(A) \in A /\ \A x \in A : x <= Max(A)
<1> DEFINE B == {j \in 0..k : A \cap 0..j = {} \/ \E x \in A \cap 0..j : \A y \in A \cap 0..j : y <= x}
<1>1. 0 \in B
  <2>1. \A x \in A \cap 0..0 : x = 0
    OBVIOUS
  <2>2. A \cap 0..0 = {} \/ \E x \in A \cap 0..0 : \A y \in A \cap 0..0 : y <= x
    BY <2>1
  <2> QED BY <2>2
<1>2. ASSUME NEW j \in 1..k, j - 1 \in B PROVE j \in B
  <2>1. CASE j \in A
    <3>1. j \in A \cap 0..j /\ \A y \in A \cap 0..j : y <= j
      BY <2>1
    <3> QED BY <3>1
  <2>2. CASE j \notin A
    <3>1. A \cap 0..j = A \cap 0..(j - 1)
      BY <2>2
    <3> QED BY <1>2, <3>1
  <2> QED BY <2>1, <2>2
<1>3. k \in B
  <2> HIDE DEF B
  <2>1. \A j \in 0..k : j \in B
    BY <1>1, <1>2, StepByStep
  <2> QED BY <2>1
<1>4. A \cap 0..k = A
  OBVIOUS
<1>5. \E x \in A : \A y \in A : y <= x
  BY <1>3, <1>4
<1>6. \A x, y \in A : (y <= x) <=> (x >= y)
  OBVIOUS
<1> QED BY <1>5, <1>6 DEF Max

-----------------------------------------------------------------------------
(* Lines and accumulators.                                                 *)
Event == [type : Types, msg : Messages, node : Peers, at : 1..MaxClock, duplicate : BOOLEAN]
Acc == [createdAt : Nat, lastUniqueAt : Nat, reached : SUBSET Peers, duplicates : Nat,
        counts : [Types -> Nat]]

LEMMA EmptyType == Empty \in Acc
BY DEF Empty, Acc

LEMMA ConsumeType ==
  ASSUME NEW acc \in Acc, NEW e \in Event
  PROVE  Consume(acc, e) \in Acc
<1>1. e.type \in Types /\ e.node \in Peers /\ e.at \in Nat
  BY DEF Event
<1>2. CASE e.type = "message_created"
  <2>1. Consume(acc, e) = [acc EXCEPT !.createdAt = e.at, !.lastUniqueAt = e.at,
                                      !.reached = @ \cup {e.node}]
    BY <1>2 DEF Consume
  <2> DEFINE reached == acc.reached \cup {e.node}
  <2>2. Consume(acc, e) = [acc EXCEPT !.createdAt = e.at, !.lastUniqueAt = e.at,
                                      !.reached = reached]
    BY <2>1
  <2>3. reached \in SUBSET Peers
    BY <1>1 DEF Acc
  <2> HIDE DEF reached
  <2> QED BY <1>1, <2>2, <2>3 DEF Acc
<1>3. CASE e.type = "message_received" /\ e.duplicate
  <2>1. Consume(acc, e) = [acc EXCEPT !.duplicates = @ + 1]
    BY <1>3 DEF Consume
  <2> QED BY <2>1 DEF Acc
<1>4. CASE e.type = "message_received" /\ ~e.duplicate
  <2>1. Consume(acc, e) = [acc EXCEPT !.reached = @ \cup {e.node},
                                      !.lastUniqueAt = IF e.at > @ THEN e.at ELSE @]
    BY <1>4 DEF Consume
  <2> DEFINE last == IF e.at > acc.lastUniqueAt THEN e.at ELSE acc.lastUniqueAt
             reached == acc.reached \cup {e.node}
  <2>2. Consume(acc, e) = [acc EXCEPT !.reached = reached, !.lastUniqueAt = last]
    BY <2>1
  <2>3. last \in Nat /\ reached \in SUBSET Peers
    BY <1>1 DEF Acc
  <2> HIDE DEF last, reached
  <2> QED BY <2>2, <2>3 DEF Acc
<1>5. CASE e.type \notin {"message_created", "message_received"}
  <2> DEFINE c == [acc.counts EXCEPT ![e.type] = @ + 1]
  <2>1. Consume(acc, e) = [acc EXCEPT !.counts = c]
    BY <1>5 DEF Consume
  <2>2. acc.counts \in [Types -> Nat]
    BY DEF Acc
  <2>3. c \in [Types -> Nat]
    BY <1>1, <2>2
  <2> HIDE DEF c
  <2> QED BY <2>1, <2>3 DEF Acc
<1> QED BY <1>2, <1>3, <1>4, <1>5

(* One file: the accumulators after each line.                             *)
ReadsLines(a, m, acc, lines) ==
  /\ a \in [0..Len(lines) -> Acc] /\ a[0] = acc
  /\ \A i \in 1..Len(lines) :
       a[i] = IF lines[i].msg = m THEN Consume(a[i - 1], lines[i]) ELSE a[i - 1]

LEMMA ReadEventsSteps ==
  ASSUME NEW m, NEW acc \in Acc, NEW lines \in Seq(Event)
  PROVE  \E a : ReadsLines(a, m, acc, lines) /\ ReadEvents(m, acc, lines) = a[Len(lines)]
<1> DEFINE k == Len(lines)
           Step(i, x) == IF lines[i].msg = m THEN Consume(x, lines[i]) ELSE x
           Reads(g) == g = [i \in 0..k |-> IF i = 0 THEN acc
                                           ELSE IF lines[i].msg = m THEN Consume(g[i - 1], lines[i])
                                           ELSE g[i - 1]]
           after == CHOOSE g : Reads(g)
           F == [p \in (1..k) \X Acc |-> Step(p[1], p[2])]
<1>1. k \in Nat /\ \A i \in 1..k : lines[i] \in Event
  OBVIOUS
<1>2. \A i \in 1..k, x \in Acc : Step(i, x) \in Acc /\ F[<<i, x>>] = Step(i, x)
  BY <1>1, ConsumeType
<1>3. F \in Steps(k, Acc)
  BY <1>2 DEF Steps
<1>4. PICK a \in [0..k -> Acc] : a[0] = acc /\ \A i \in 1..k : a[i] = F[<<i, a[i - 1]>>]
  <2> HIDE DEF F, k
  <2>1. Solvable(k, Acc, acc, F)
    BY <1>1, <1>3, Recursion
  <2> QED BY <2>1 DEF Solvable, Solves
<1>5. \A i \in 1..k : a[i - 1] \in Acc /\ a[i] = Step(i, a[i - 1])
  <2> HIDE DEF F, Step
  <2> SUFFICES ASSUME NEW i \in 1..k PROVE a[i - 1] \in Acc /\ a[i] = Step(i, a[i - 1])
    OBVIOUS
  <2>1. i - 1 \in 0..k
    BY <1>1
  <2> QED BY <1>2, <1>4, <2>1
<1>6. Reads(a)
  <2>1. \A i \in 0..k : a[i] = IF i = 0 THEN acc
                               ELSE IF lines[i].msg = m THEN Consume(a[i - 1], lines[i])
                               ELSE a[i - 1]
    <3> HIDE DEF k
    <3> QED BY <1>1, <1>4, <1>5
  <2> QED BY <2>1
<1>7. Reads(after)
  BY <1>6
<1>8. ReadEvents(m, acc, lines) = after[k]
  BY DEF ReadEvents
<1> HIDE DEF after, F
<1> DEFINE B == {i \in 0..k : after[i] = a[i]}
<1>9. \A i \in 0..k : i \in B
  <2>1. 0 \in B
    BY <1>1, <1>4, <1>7
  <2>2. ASSUME NEW i \in 1..k, i - 1 \in B PROVE i \in B
    <3>1. after[i] = Step(i, after[i - 1])
      <4>1. i \in 0..k /\ i # 0
        BY <1>1
      <4> HIDE DEF k
      <4> QED BY <1>7, <4>1
    <3> QED BY <1>5, <2>2, <3>1
  <2> HIDE DEF B, k
  <2> QED BY <1>1, <2>1, <2>2, StepByStep
<1>10. after[k] = a[k]
  BY <1>1, <1>9
<1>11. ReadsLines(a, m, acc, lines)
  BY <1>4, <1>5 DEF ReadsLines
<1> QED BY <1>8, <1>10, <1>11

(* All files: the accumulators after each file.                            *)
ReadsFiles(a, m) ==
  /\ a \in [0..N -> Acc] /\ a[0] = Empty
  /\ \A n \in 1..N : a[n] = ReadEvents(m, a[n - 1], file[n])

LEMMA AccumulatedSteps ==
  ASSUME NEW m, \A n \in Peers : file[n] \in Seq(Event)
  PROVE  \E a : ReadsFiles(a, m) /\ Accumulated(m) = a[N]
<1> DEFINE Reads(g) == g = [n \in 0..N |-> IF n = 0 THEN Empty
                                           ELSE ReadEvents(m, g[n - 1], file[n])]
           after == CHOOSE g : Reads(g)
           F == [p \in (1..N) \X Acc |-> ReadEvents(m, p[2], file[p[1]])]
<1>1. N \in Nat
  BY AggregateAssumption
<1>2. ASSUME NEW n \in 1..N, NEW x \in Acc
      PROVE  ReadEvents(m, x, file[n]) \in Acc /\ F[<<n, x>>] = ReadEvents(m, x, file[n])
  <2>1. file[n] \in Seq(Event)
    BY DEF Peers
  <2>2. Len(file[n]) \in Nat
    BY <2>1
  <2>3. PICK a : ReadsLines(a, m, x, file[n]) /\ ReadEvents(m, x, file[n]) = a[Len(file[n])]
    BY <2>1, ReadEventsSteps
  <2>4. a \in [0..Len(file[n]) -> Acc]
    BY <2>3 DEF ReadsLines
  <2> QED BY <2>2, <2>3, <2>4
<1>3. F \in Steps(N, Acc)
  BY <1>2 DEF Steps
<1>4. PICK a \in [0..N -> Acc] : a[0] = Empty /\ \A n \in 1..N : a[n] = F[<<n, a[n - 1]>>]
  <2> HIDE DEF F
  <2>1. Solvable(N, Acc, Empty, F)
    BY <1>1, <1>3, EmptyType, Recursion
  <2> QED BY <2>1 DEF Solvable, Solves
<1>5. ASSUME NEW n \in 1..N PROVE a[n - 1] \in Acc /\ a[n] = ReadEvents(m, a[n - 1], file[n])
  <2> HIDE DEF F
  <2>1. n - 1 \in 0..N
    BY <1>1
  <2> QED BY <1>2, <1>4, <2>1
<1>6. Reads(a)
  <2>1. \A n \in 0..N : a[n] = IF n = 0 THEN Empty ELSE ReadEvents(m, a[n - 1], file[n])
    BY <1>1, <1>4, <1>5
  <2> QED BY <2>1
<1>7. Reads(after)
  BY <1>6
<1>8. Accumulated(m) = after[N]
  BY DEF Accumulated
<1> HIDE DEF after, F
<1> DEFINE B == {n \in 0..N : after[n] = a[n]}
<1>9. \A n \in 0..N : n \in B
  <2>1. 0 \in B
    BY <1>1, <1>4, <1>7
  <2>2. ASSUME NEW n \in 1..N, n - 1 \in B PROVE n \in B
    <3>1. after[n] = ReadEvents(m, after[n - 1], file[n])
      BY <1>1, <1>7
    <3> QED BY <1>5, <2>2, <3>1
  <2> HIDE DEF B
  <2> QED BY <1>1, <2>1, <2>2, StepByStep
<1>10. after[N] = a[N]
  BY <1>1, <1>9
<1>11. ReadsFiles(a, m)
  BY <1>4, <1>5 DEF ReadsFiles
<1> QED BY <1>8, <1>10, <1>11

-----------------------------------------------------------------------------
(* What an accumulator says of the events R read so far.                   *)
Arrived(R) ==
  {e \in R : e.type \in {"message_created", "message_received"} /\ ~e.duplicate}

Says(acc, R) ==
  /\ acc \in Acc /\ IsFiniteSet(R)
  /\ acc.reached = {e.node : e \in Arrived(R)}
  /\ acc.duplicates = Cardinality({e \in R : e.duplicate})
  /\ \A t \in Types \ {"message_created", "message_received"} :
       acc.counts[t] = Cardinality({e \in R : e.type = t})
  /\ (\A e \in R : e.type # "message_created") => acc.createdAt = 0
  /\ \A e \in R : e.type = "message_created" => acc.createdAt = e.at
  /\ acc.lastUniqueAt = 0 \/ \E e \in Arrived(R) : acc.lastUniqueAt = e.at

(* Of one message: only receptions are duplicates, and it is created once. *)
Plausible(R) ==
  /\ R \subseteq Event
  /\ \A e \in R : e.duplicate => e.type = "message_received"
  /\ \A e, d \in R : e.type = "message_created" /\ d.type = "message_created" => e = d

LEMMA EmptySays == Says(Empty, {})
<1>1. IsFiniteSet({}) /\ Cardinality({}) = 0
  BY FS_EmptySet
<1>2. {e \in {} : e.duplicate} = {} /\ \A t : {e \in {} : e.type = t} = {}
  OBVIOUS
<1>3. {e.node : e \in Arrived({})} = {}
  BY DEF Arrived
<1>4. /\ Empty.reached = {} /\ Empty.duplicates = 0 /\ Empty.createdAt = 0
      /\ Empty.lastUniqueAt = 0 /\ \A t \in Types : Empty.counts[t] = 0
  BY DEF Empty
<1> QED BY <1>1, <1>2, <1>3, <1>4, EmptyType DEF Says

(* One more member with a mark is counted, one without is not.             *)
LEMMA OneMoreMarked ==
  ASSUME NEW R, IsFiniteSet(R), NEW e, e \notin R, NEW M \in SUBSET (R \cup {e})
  PROVE  /\ e \in M => Cardinality(M) = Cardinality(M \cap R) + 1
         /\ e \notin M => M = M \cap R
         /\ Cardinality(M \cap R) \in Nat
<1>1. IsFiniteSet(M \cap R) /\ Cardinality(M \cap R) \in Nat
  BY FS_Subset, FS_CardinalityType
<1>2. ASSUME e \in M PROVE Cardinality(M) = Cardinality(M \cap R) + 1
  <2>1. M = (M \cap R) \cup {e} /\ e \notin M \cap R
    BY <1>2
  <2> QED BY <1>1, <2>1, FS_AddElement
<1> QED BY <1>1, <1>2

(* A line does to the accumulator what its event does to the counts.       *)
LEMMA ConsumeSays ==
  ASSUME NEW R, NEW e, e \notin R, Plausible(R \cup {e}), NEW acc, Says(acc, R)
  PROVE  Says(Consume(acc, e), R \cup {e})
<1> DEFINE new == Consume(acc, e)
           S == R \cup {e}
<1>1. /\ acc \in Acc /\ IsFiniteSet(R) /\ e \in Event /\ e.type \in Types /\ e.at \in Nat
      /\ e.duplicate => e.type = "message_received"
  BY DEF Says, Plausible, Event
<1>2. new \in Acc /\ IsFiniteSet(S)
  BY <1>1, ConsumeType, FS_AddElement
<1>3. /\ acc.createdAt \in Nat /\ acc.lastUniqueAt \in Nat /\ acc.duplicates \in Nat
      /\ acc.counts \in [Types -> Nat]
  BY <1>1 DEF Acc
<1>4. \/ /\ e.type = "message_created" /\ ~e.duplicate
         /\ new.reached = acc.reached \cup {e.node} /\ new.duplicates = acc.duplicates
         /\ new.counts = acc.counts /\ new.createdAt = e.at /\ new.lastUniqueAt = e.at
      \/ /\ e.type = "message_received" /\ e.duplicate
         /\ new.reached = acc.reached /\ new.duplicates = acc.duplicates + 1
         /\ new.counts = acc.counts
         /\ new.createdAt = acc.createdAt /\ new.lastUniqueAt = acc.lastUniqueAt
      \/ /\ e.type = "message_received" /\ ~e.duplicate
         /\ new.reached = acc.reached \cup {e.node} /\ new.duplicates = acc.duplicates
         /\ new.counts = acc.counts /\ new.createdAt = acc.createdAt
         /\ new.lastUniqueAt \in {acc.lastUniqueAt, e.at}
      \/ /\ e.type \notin {"message_created", "message_received"} /\ ~e.duplicate
         /\ new.reached = acc.reached /\ new.duplicates = acc.duplicates
         /\ new.counts = [acc.counts EXCEPT ![e.type] = @ + 1]
         /\ new.createdAt = acc.createdAt /\ new.lastUniqueAt = acc.lastUniqueAt
  BY <1>1, <1>3 DEF Consume, Acc
<1> HIDE DEF new
<1>5. new.reached = {d.node : d \in Arrived(S)}
  <2>1. acc.reached = {d.node : d \in Arrived(R)}
    BY DEF Says
  <2>2. CASE e \in Arrived(S)
    <3>1. Arrived(S) = Arrived(R) \cup {e}
      BY <2>2 DEF Arrived
    <3>2. new.reached = acc.reached \cup {e.node}
      BY <1>4, <2>2 DEF Arrived
    <3> QED BY <2>1, <3>1, <3>2
  <2>3. CASE e \notin Arrived(S)
    <3>1. Arrived(S) = Arrived(R)
      BY <2>3 DEF Arrived
    <3>2. new.reached = acc.reached
      BY <1>4, <2>3 DEF Arrived
    <3> QED BY <2>1, <3>1, <3>2
  <2> QED BY <2>2, <2>3
<1>6. new.duplicates = Cardinality({d \in S : d.duplicate})
  <2> DEFINE M == {d \in S : d.duplicate}
  <2>1. acc.duplicates = Cardinality(M \cap R)
    <3>1. M \cap R = {d \in R : d.duplicate}
      OBVIOUS
    <3> QED BY <3>1 DEF Says
  <2>2. e \in M <=> e.duplicate
    OBVIOUS
  <2>3. M \in SUBSET (R \cup {e})
    OBVIOUS
  <2> HIDE DEF M
  <2>4. CASE e \in M
    <3>1. Cardinality(M) = Cardinality(M \cap R) + 1
      BY <1>1, <2>3, <2>4, OneMoreMarked
    <3>2. new.duplicates = acc.duplicates + 1
      BY <1>4, <2>2, <2>4
    <3> QED BY <2>1, <3>1, <3>2 DEF M
  <2>5. CASE e \notin M
    <3>1. M = M \cap R
      BY <1>1, <2>3, <2>5, OneMoreMarked
    <3>2. new.duplicates = acc.duplicates
      BY <1>4, <2>2, <2>5
    <3> QED BY <2>1, <3>1, <3>2 DEF M
  <2> QED BY <2>4, <2>5
<1>7. ASSUME NEW t \in Types \ {"message_created", "message_received"}
      PROVE  new.counts[t] = Cardinality({d \in S : d.type = t})
  <2> DEFINE M == {d \in S : d.type = t}
  <2>1. acc.counts[t] = Cardinality(M \cap R)
    <3>1. M \cap R = {d \in R : d.type = t}
      OBVIOUS
    <3> QED BY <3>1 DEF Says
  <2>2. e \in M <=> e.type = t
    OBVIOUS
  <2>3. M \in SUBSET (R \cup {e})
    OBVIOUS
  <2> HIDE DEF M
  <2>4. CASE e \in M
    <3>1. Cardinality(M) = Cardinality(M \cap R) + 1
      BY <1>1, <2>3, <2>4, OneMoreMarked
    <3>2. new.counts[t] = acc.counts[t] + 1
      BY <1>3, <1>4, <2>2, <2>4
    <3> QED BY <2>1, <3>1, <3>2 DEF M
  <2>5. CASE e \notin M
    <3>1. M = M \cap R
      BY <1>1, <2>3, <2>5, OneMoreMarked
    <3>2. new.counts[t] = acc.counts[t]
      BY <1>3, <1>4, <2>2, <2>5
    <3> QED BY <2>1, <3>1, <3>2 DEF M
  <2> QED BY <2>4, <2>5
<1>8. (\A d \in S : d.type # "message_created") => new.createdAt = 0
  BY <1>4 DEF Says
<1>9. ASSUME NEW d \in S, d.type = "message_created" PROVE new.createdAt = d.at
  <2>1. CASE e.type = "message_created"
    <3>1. d = e
      BY <1>9, <2>1 DEF Plausible
    <3> QED BY <1>4, <2>1, <3>1
  <2>2. CASE e.type # "message_created"
    <3>1. d \in R
      BY <1>9, <2>2
    <3>2. new.createdAt = acc.createdAt
      BY <1>4, <2>2
    <3> QED BY <1>9, <3>1, <3>2 DEF Says
  <2> QED BY <2>1, <2>2
<1>10. new.lastUniqueAt = 0 \/ \E d \in Arrived(S) : new.lastUniqueAt = d.at
  <2>1. CASE new.lastUniqueAt = acc.lastUniqueAt
    <3>1. Arrived(R) \subseteq Arrived(S)
      BY DEF Arrived
    <3> QED BY <2>1, <3>1 DEF Says
  <2>2. CASE new.lastUniqueAt # acc.lastUniqueAt
    <3>1. e \in Arrived(S) /\ new.lastUniqueAt = e.at
      BY <1>4, <2>2 DEF Arrived
    <3> QED BY <3>1
  <2> QED BY <2>1, <2>2
<1> HIDE DEF S
<1>11. Says(new, S)
  BY <1>2, <1>5, <1>6, <1>7, <1>8, <1>9, <1>10 DEF Says
<1> QED BY <1>11 DEF new, S

(* A file, whose lines are all different from each other and from what was *)
(* read before.                                                            *)
LEMMA FileIsRead ==
  ASSUME NEW m, NEW lines \in Seq(Event), NEW R, NEW acc, Says(acc, R),
         \A i, j \in 1..Len(lines) : lines[i] = lines[j] => i = j,
         \A i \in 1..Len(lines) : lines[i] \notin R,
         NEW S, S = R \cup {e \in {lines[j] : j \in 1..Len(lines)} : e.msg = m}, Plausible(S)
  PROVE  Says(ReadEvents(m, acc, lines), S)
<1> DEFINE k == Len(lines)
           Upto(i) == R \cup {e \in {lines[j] : j \in 1..i} : e.msg = m}
<1>1. k \in Nat /\ acc \in Acc /\ Upto(k) = S
  BY DEF Says
<1>2. PICK a : ReadsLines(a, m, acc, lines) /\ ReadEvents(m, acc, lines) = a[k]
  BY <1>1, ReadEventsSteps
<1> DEFINE B == {i \in 0..k : Says(a[i], Upto(i))}
<1>3. 0 \in B
  <2>1. Upto(0) = R
    OBVIOUS
  <2>2. a[0] = acc
    BY <1>2 DEF ReadsLines
  <2> HIDE DEF Upto
  <2> QED BY <1>1, <2>1, <2>2
<1>4. ASSUME NEW i \in 1..k, i - 1 \in B PROVE i \in B
  <2>1. Says(a[i - 1], Upto(i - 1))
    BY <1>4
  <2>2. a[i] = IF lines[i].msg = m THEN Consume(a[i - 1], lines[i]) ELSE a[i - 1]
    BY <1>2 DEF ReadsLines
  <2>3. 1..i = (1..(i - 1)) \cup {i} /\ i \notin 1..(i - 1) /\ 1..(i - 1) \subseteq 1..k
    BY <1>1
  <2>4. CASE lines[i].msg = m
    <3>1. Upto(i) = Upto(i - 1) \cup {lines[i]}
      BY <2>3, <2>4
    <3>2. lines[i] \notin Upto(i - 1)
      BY <2>3
    <3>3. Upto(i) \subseteq S
      BY <1>1, <2>3
    <3> HIDE DEF Upto
    <3>4. Plausible(Upto(i - 1) \cup {lines[i]})
      BY <3>1, <3>3 DEF Plausible
    <3>5. Says(a[i], Upto(i))
      BY <2>1, <2>2, <2>4, <3>1, <3>2, <3>4, ConsumeSays
    <3> QED BY <1>1, <3>5
  <2>5. CASE lines[i].msg # m
    <3>1. Upto(i) = Upto(i - 1)
      BY <2>3, <2>5
    <3> HIDE DEF Upto
    <3> QED BY <1>1, <2>1, <2>2, <2>5, <3>1
  <2> QED BY <2>4, <2>5
<1>5. k \in B
  <2> HIDE DEF B, k
  <2>1. \A i \in 0..k : i \in B
    BY <1>1, <1>3, <1>4, StepByStep
  <2> QED BY <1>1, <2>1
<1> QED BY <1>1, <1>2, <1>5

-----------------------------------------------------------------------------
(* What holds of the files of a run: stamps tell events apart and are in   *)
(* the past, and the recorded events of a message are those of its peers.  *)
Stamped ==
  \A n \in Peers : \A i \in 1..Len(file[n]) : file[n][i].at <= clock /\ file[n][i].node = n

StampsDiffer ==
  \A n, k \in Peers : \A i \in 1..Len(file[n]), j \in 1..Len(file[k]) :
    file[n][i].at = file[k][j].at => n = k /\ i = j

RecordsArePlausible == \A m \in Messages : Plausible(Recorded(m))

RecordsAreOfHolders ==
  \A m \in Messages : \A e \in Recorded(m) :
    e.type \in {"message_created", "message_received"} => e.node \in holders[m]

HoldersAreRecorded ==
  finalized = {} =>
    \A m \in Messages : \A n \in holders[m] : \E e \in Arrived(Recorded(m)) : e.node = n

FilesInv ==
  /\ clock \in 0..MaxClock /\ file \in [Peers -> Seq(Event)]
  /\ holders \in [Messages -> SUBSET Peers] /\ finalized \in SUBSET Peers
  /\ Stamped /\ StampsDiffer
  /\ RecordsArePlausible /\ RecordsAreOfHolders /\ HoldersAreRecorded

LEMMA FilesInit == Init => FilesInv
<1> SUFFICES ASSUME Init PROVE FilesInv
  OBVIOUS
<1>1. 0 \in 0..MaxClock
  BY AggregateAssumption
<1>2. \A n \in Peers : file[n] = << >> /\ Len(file[n]) = 0 /\ ToSet(file[n]) = {}
  BY DEF Init, ToSet
<1>3. \A m : Recorded(m) = {}
  BY <1>2 DEF Recorded
<1>4. Plausible({})
  BY DEF Plausible
<1>5. file \in [Peers -> Seq(Event)]
  BY DEF Init
<1>6. Stamped /\ StampsDiffer
  BY <1>2 DEF Stamped, StampsDiffer
<1>7. \A m \in Messages : holders[m] = {}
  BY DEF Init
<1> QED
  BY <1>1, <1>3, <1>4, <1>5, <1>6, <1>7
     DEF Init, FilesInv, RecordsArePlausible, RecordsAreOfHolders, HoldersAreRecorded

(* A peer that was finalized records nothing; any other one adds an event  *)
(* with a new stamp, to its file and to its message's events.              *)
LEMMA RecordAdds ==
  ASSUME FilesInv, NEW n \in Peers, NEW type \in Types, NEW m \in Messages,
         NEW duplicate \in BOOLEAN, Record(n, type, m, duplicate),
         NEW e, e = [type |-> type, msg |-> m, node |-> n, at |-> clock + 1,
                     duplicate |-> duplicate]
  PROVE  /\ clock' \in 0..MaxClock /\ file' \in [Peers -> Seq(Event)] /\ finalized' = finalized
         /\ Stamped' /\ StampsDiffer'
         /\ \/ finalized # {} /\ \A k : Recorded(k)' = Recorded(k)
            \/ /\ e \in Event
               /\ \A k : Recorded(k)' = IF k = m THEN Recorded(k) \cup {e} ELSE Recorded(k)
<1>1. /\ clock \in Nat /\ clock + 1 \in 1..MaxClock /\ clock' = clock + 1
      /\ finalized' = finalized /\ clock' \in 0..MaxClock
  BY AggregateAssumption DEF FilesInv, Record
<1>2. e \in Event /\ e.at = clock + 1 /\ e.node = n /\ e.msg = m
  BY <1>1 DEF Event
<1>3. file \in [Peers -> Seq(Event)] /\ Stamped /\ StampsDiffer
  BY DEF FilesInv
<1>4. \A k \in Peers : Len(file[k]) \in Nat /\ \A i \in 1..Len(file[k]) : file[k][i].at \in Nat
  <2> SUFFICES ASSUME NEW k \in Peers
               PROVE  Len(file[k]) \in Nat /\ \A i \in 1..Len(file[k]) : file[k][i].at \in Nat
    OBVIOUS
  <2> DEFINE s == file[k]
  <2>1. s \in Seq(Event)
    BY <1>3
  <2> HIDE DEF s
  <2>2. Len(s) \in Nat /\ \A i \in 1..Len(s) : s[i] \in Event
    BY <2>1
  <2>3. Len(s) \in Nat /\ \A i \in 1..Len(s) : s[i].at \in Nat
    BY <2>2 DEF Event
  <2> QED BY <2>3 DEF s
<1>5. CASE n \in finalized
  <2>1. file' = file
    BY <1>5 DEF Record
  <2>2. Stamped'
    <3> SUFFICES ASSUME NEW k \in Peers, NEW i \in 1..Len(file[k])
                 PROVE  file[k][i].at <= clock + 1 /\ file[k][i].node = k
      BY <1>1, <2>1 DEF Stamped
    <3>1. file[k][i].at <= clock /\ file[k][i].node = k /\ file[k][i].at \in Nat
      BY <1>3, <1>4 DEF Stamped
    <3> QED BY <1>1, <3>1
  <2>3. StampsDiffer'
    BY <1>3, <2>1 DEF StampsDiffer
  <2>4. \A k : Recorded(k)' = Recorded(k)
    BY <2>1 DEF Recorded
  <2> QED BY <1>1, <1>3, <1>5, <2>1, <2>2, <2>3, <2>4
<1>6. CASE n \notin finalized
  <2>1. file' = [file EXCEPT ![n] = Append(@, e)]
    BY <1>6 DEF Record
  <2>2. file' \in [Peers -> Seq(Event)]
    BY <1>2, <1>3, <2>1
  <2>3. ASSUME NEW k \in Peers, NEW i \in 1..Len(file'[k])
        PROVE  \/ i \in 1..Len(file[k]) /\ file'[k][i] = file[k][i]
               \/ k = n /\ i = Len(file[k]) + 1 /\ file'[k][i] = e
    <3>1. CASE k = n
      <4>1. file'[k] = Append(file[k], e) /\ file[k] \in Seq(Event)
        BY <1>3, <2>1, <3>1
      <4> QED BY <3>1, <4>1
    <3>2. CASE k # n
      <4>1. file'[k] = file[k]
        BY <1>3, <2>1, <3>2
      <4> QED BY <4>1
    <3> QED BY <3>1, <3>2
  <2>4. Stamped'
    <3> SUFFICES ASSUME NEW k \in Peers, NEW i \in 1..Len(file'[k])
                 PROVE  file'[k][i].at <= clock + 1 /\ file'[k][i].node = k
      BY <1>1 DEF Stamped
    <3>1. CASE i \in 1..Len(file[k]) /\ file'[k][i] = file[k][i]
      <4>1. file[k][i].at <= clock /\ file[k][i].node = k /\ file[k][i].at \in Nat
        BY <1>3, <1>4, <3>1 DEF Stamped
      <4> QED BY <1>1, <3>1, <4>1
    <3>2. CASE k = n /\ file'[k][i] = e
      BY <1>1, <1>2, <3>2
    <3> QED BY <2>3, <3>1, <3>2
  <2>5. StampsDiffer'
    <3> SUFFICES ASSUME NEW k \in Peers, NEW l \in Peers, NEW i \in 1..Len(file'[k]),
                        NEW j \in 1..Len(file'[l]), file'[k][i].at = file'[l][j].at
                 PROVE  k = l /\ i = j
      BY DEF StampsDiffer
    <3>1. ASSUME NEW o \in Peers, NEW h \in 1..Len(file[o])
          PROVE  file[o][h].at # clock + 1
      <4>1. file[o][h].at <= clock /\ file[o][h].at \in Nat
        BY <1>3, <1>4 DEF Stamped
      <4> QED BY <1>1, <4>1
    <3>2. CASE /\ i \in 1..Len(file[k]) /\ file'[k][i] = file[k][i]
               /\ j \in 1..Len(file[l]) /\ file'[l][j] = file[l][j]
      <4>1. file[k][i].at = file[l][j].at
        BY <3>2
      <4> QED BY <1>3, <3>2, <4>1 DEF StampsDiffer
    <3>3. CASE k = n /\ i = Len(file[k]) + 1 /\ file'[k][i] = e
      <4>1. file'[l][j].at = clock + 1
        BY <1>2, <3>3
      <4>2. ~(j \in 1..Len(file[l]) /\ file'[l][j] = file[l][j])
        BY <3>1, <4>1
      <4>3. l = n /\ j = Len(file[l]) + 1
        BY <2>3, <4>2
      <4> QED BY <3>3, <4>3
    <3>4. CASE l = n /\ j = Len(file[l]) + 1 /\ file'[l][j] = e
      <4>1. file'[k][i].at = clock + 1
        BY <1>2, <3>4
      <4>2. ~(i \in 1..Len(file[k]) /\ file'[k][i] = file[k][i])
        BY <3>1, <4>1
      <4>3. k = n /\ i = Len(file[k]) + 1
        BY <2>3, <4>2
      <4> QED BY <3>4, <4>3
    <3> QED BY <2>3, <3>2, <3>3, <3>4
  <2>6. \A k \in Peers : ToSet(file'[k]) = IF k = n THEN ToSet(file[k]) \cup {e}
                                           ELSE ToSet(file[k])
    <3> SUFFICES ASSUME NEW k \in Peers
                 PROVE  ToSet(file'[k]) = IF k = n THEN ToSet(file[k]) \cup {e}
                                          ELSE ToSet(file[k])
      OBVIOUS
    <3>1. CASE k = n
      <4> DEFINE s == file[k]
      <4>1. file'[k] = Append(s, e) /\ s \in Seq(Event)
        BY <1>3, <2>1, <3>1
      <4> HIDE DEF s
      <4>2. ToSet(Append(s, e)) = ToSet(s) \cup {e}
        <5>1. /\ DOMAIN Append(s, e) = (DOMAIN s) \cup {Len(s) + 1}
              /\ \A i \in DOMAIN s : Append(s, e)[i] = s[i]
              /\ Append(s, e)[Len(s) + 1] = e
          BY <1>2, <4>1
        <5> QED BY <5>1 DEF ToSet
      <4> QED BY <3>1, <4>1, <4>2 DEF s
    <3>2. CASE k # n
      BY <1>3, <2>1, <3>2
    <3> QED BY <3>1, <3>2
  <2>7. UNION {ToSet(file'[k]) : k \in Peers} = (UNION {ToSet(file[k]) : k \in Peers}) \cup {e}
    <3> DEFINE new == [k \in Peers |-> ToSet(file'[k])]
               old == [k \in Peers |-> ToSet(file[k])]
    <3>1. /\ \A k \in Peers : new[k] = IF k = n THEN old[k] \cup {e} ELSE old[k]
          /\ UNION {ToSet(file'[k]) : k \in Peers} = UNION {new[k] : k \in Peers}
          /\ UNION {ToSet(file[k]) : k \in Peers} = UNION {old[k] : k \in Peers}
      BY <2>6
    <3> HIDE DEF new, old
    <3>2. ASSUME NEW x
          PROVE  (\E k \in Peers : x \in new[k]) <=> (\E k \in Peers : x \in old[k]) \/ x = e
      BY <3>1
    <3>3. UNION {new[k] : k \in Peers} = (UNION {old[k] : k \in Peers}) \cup {e}
      BY <3>2
    <3> QED BY <3>1, <3>3
  <2>8. \A k : Recorded(k)' = IF k = m THEN Recorded(k) \cup {e} ELSE Recorded(k)
    BY <1>2, <2>7 DEF Recorded
  <2> QED BY <1>1, <1>2, <2>2, <2>4, <2>5, <2>8
<1> QED BY <1>5, <1>6

(* What every event asks of the peers that have its message.               *)
LEMMA RecordKeeps ==
  ASSUME FilesInv, NEW n \in Peers, NEW type \in Types, NEW m \in Messages,
         NEW duplicate \in BOOLEAN, Record(n, type, m, duplicate),
         duplicate => type = "message_received",
         type = "message_created" => holders[m] = {},
         holders' \in [Messages -> SUBSET Peers],
         \A k \in Messages : holders[k] \subseteq holders'[k],
         type \in {"message_created", "message_received"} => n \in holders'[m],
         \A k \in Messages : \A x \in holders'[k] :
           x \in holders[k] \/ /\ k = m /\ x = n /\ ~duplicate
                               /\ type \in {"message_created", "message_received"}
  PROVE  FilesInv'
<1> DEFINE e == [type |-> type, msg |-> m, node |-> n, at |-> clock + 1,
                 duplicate |-> duplicate]
<1>1. e.type = type /\ e.node = n /\ e.duplicate = duplicate
  OBVIOUS
<1>2. /\ clock' \in 0..MaxClock /\ file' \in [Peers -> Seq(Event)] /\ finalized' = finalized
      /\ Stamped' /\ StampsDiffer'
      /\ \/ finalized # {} /\ \A k : Recorded(k)' = Recorded(k)
         \/ /\ e \in Event
            /\ \A k : Recorded(k)' = IF k = m THEN Recorded(k) \cup {e} ELSE Recorded(k)
  BY RecordAdds
<1> HIDE DEF e
<1>3. RecordsArePlausible /\ RecordsAreOfHolders /\ HoldersAreRecorded
  BY DEF FilesInv
<1>4. \A k \in Messages : \A d \in Recorded(k)' :
        d \in Recorded(k) \/ (k = m /\ d = e /\ e \in Event)
  BY <1>2
<1>5. RecordsArePlausible'
  <2> SUFFICES ASSUME NEW k \in Messages PROVE Plausible(Recorded(k)')
    BY DEF RecordsArePlausible
  <2>1. Plausible(Recorded(k))
    BY <1>3 DEF RecordsArePlausible
  <2>2. Recorded(k)' \subseteq Event
    BY <1>4, <2>1 DEF Plausible
  <2>3. \A d \in Recorded(k)' : d.duplicate => d.type = "message_received"
    BY <1>1, <1>4, <2>1 DEF Plausible
  <2>4. ASSUME NEW d \in Recorded(k), d.type = "message_created", k = m
        PROVE  type # "message_created"
    BY <1>3, <2>4 DEF RecordsAreOfHolders
  <2>5. ASSUME NEW c \in Recorded(k)', NEW d \in Recorded(k)',
               c.type = "message_created", d.type = "message_created"
        PROVE  c = d
    <3>1. CASE c \in Recorded(k) /\ d \in Recorded(k)
      BY <2>1, <2>5, <3>1 DEF Plausible
    <3>2. CASE c \notin Recorded(k)
      BY <1>1, <1>4, <2>4, <2>5, <3>2
    <3>3. CASE d \notin Recorded(k)
      BY <1>1, <1>4, <2>4, <2>5, <3>3
    <3> QED BY <3>1, <3>2, <3>3
  <2> QED BY <2>2, <2>3, <2>5 DEF Plausible
<1>6. RecordsAreOfHolders'
  <2> SUFFICES ASSUME NEW k \in Messages, NEW d \in Recorded(k)',
                      d.type \in {"message_created", "message_received"}
               PROVE  d.node \in holders'[k]
    BY DEF RecordsAreOfHolders
  <2>1. CASE d \in Recorded(k)
    BY <1>3, <2>1 DEF RecordsAreOfHolders
  <2>2. CASE k = m /\ d = e
    BY <1>1, <2>2
  <2> QED BY <1>4, <2>1, <2>2
<1>7. HoldersAreRecorded'
  <2> SUFFICES ASSUME finalized' = {}, NEW k \in Messages, NEW x \in holders'[k]
               PROVE  \E d \in Arrived(Recorded(k)') : d.node = x
    BY DEF HoldersAreRecorded
  <2>1. finalized = {}
    BY <1>2
  <2>2. Recorded(k)' = IF k = m THEN Recorded(k) \cup {e} ELSE Recorded(k)
    BY <1>2, <2>1
  <2>3. CASE x \in holders[k]
    <3>1. PICK d \in Arrived(Recorded(k)) : d.node = x
      BY <1>3, <2>1, <2>3 DEF HoldersAreRecorded
    <3>2. d \in Arrived(Recorded(k)')
      BY <2>2 DEF Arrived
    <3> QED BY <3>1, <3>2
  <2>4. CASE /\ k = m /\ x = n /\ ~duplicate
             /\ type \in {"message_created", "message_received"}
    <3>1. e \in Arrived(Recorded(k)')
      BY <1>1, <2>2, <2>4 DEF Arrived
    <3> QED BY <1>1, <2>4, <3>1
  <2> QED BY <2>3, <2>4
<1>8. finalized' \in SUBSET Peers
  BY <1>2 DEF FilesInv
<1> QED BY <1>2, <1>5, <1>6, <1>7, <1>8 DEF FilesInv

LEMMA FilesStep == FilesInv /\ [Next]_vars => FilesInv'
<1> SUFFICES ASSUME FilesInv, [Next]_vars PROVE FilesInv'
  OBVIOUS
<1>1. holders \in [Messages -> SUBSET Peers]
  BY DEF FilesInv
<1>2. ASSUME NEW n \in Peers, NEW m \in Messages, Create(n, m) PROVE FilesInv'
  <2>1. /\ Record(n, "message_created", m, FALSE) /\ holders[m] = {}
        /\ holders' = [holders EXCEPT ![m] = {n}] /\ "message_created" \in Types
    BY <1>2 DEF Create, Types
  <2>2. holders' \in [Messages -> SUBSET Peers] /\ n \in holders'[m]
    BY <1>1, <2>1
  <2>3. \A k \in Messages : /\ holders[k] \subseteq holders'[k]
                            /\ \A x \in holders'[k] : x \in holders[k] \/ (k = m /\ x = n)
    BY <1>1, <2>1
  <2> DEFINE type == "message_created"
  <2>4. /\ type \in Types /\ type = "message_created" /\ Record(n, type, m, FALSE)
        /\ type \in {"message_created", "message_received"} /\ FALSE \in BOOLEAN
    BY <2>1
  <2> HIDE DEF type
  <2>5. /\ \A k \in Messages : holders[k] \subseteq holders'[k]
        /\ \A k \in Messages : \A x \in holders'[k] :
             x \in holders[k] \/ /\ k = m /\ x = n /\ ~FALSE
                                 /\ type \in {"message_created", "message_received"}
    BY <2>3, <2>4
  <2> QED BY <2>1, <2>2, <2>4, <2>5, RecordKeeps
<1>3. ASSUME NEW n \in Peers, NEW m \in Messages, Receive(n, m) PROVE FilesInv'
  <2> DEFINE duplicate == n \in holders[m]
  <2>1. /\ Record(n, "message_received", m, duplicate)
        /\ holders' = [holders EXCEPT ![m] = @ \cup {n}] /\ "message_received" \in Types
        /\ duplicate \in BOOLEAN
    BY <1>3 DEF Receive, Types
  <2>2. holders' \in [Messages -> SUBSET Peers] /\ n \in holders'[m]
    BY <1>1, <2>1
  <2>3. \A k \in Messages :
          /\ holders[k] \subseteq holders'[k]
          /\ \A x \in holders'[k] : x \in holders[k] \/ (k = m /\ x = n /\ ~duplicate)
    BY <1>1, <2>1
  <2> HIDE DEF duplicate
  <2> QED BY <2>1, <2>2, <2>3, RecordKeeps
<1>4. ASSUME NEW n \in Peers, NEW m \in Messages, Relay(n, m) \/ Advised(n, m) PROVE FilesInv'
  <2>1. PICK type \in Types \ {"message_created", "message_received"} :
          Record(n, type, m, FALSE)
    <3>1. "control_received" \in Types \ {"message_created", "message_received"}
      BY DEF Types
    <3> QED BY <1>4, <3>1 DEF Relay, Advised
  <2>2. holders' = holders
    BY <1>4 DEF Relay, Advised
  <2>3. /\ type \notin {"message_created", "message_received"} /\ FALSE \in BOOLEAN
        /\ type \in Types
    OBVIOUS
  <2>4. \A k \in Messages : holders[k] \subseteq holders'[k] /\ \A x \in holders'[k] : x \in holders[k]
    BY <2>2
  <2>5. holders' \in [Messages -> SUBSET Peers]
    BY <1>1, <2>2
  <2> QED BY <2>1, <2>3, <2>4, <2>5, RecordKeeps
<1>5. ASSUME file' = file, clock' = clock, holders' = holders,
             finalized' = finalized \/ \E n \in Peers : finalized' = finalized \cup {n}
      PROVE  FilesInv'
  <2>1. \A k : Recorded(k)' = Recorded(k)
    BY <1>5 DEF Recorded
  <2>2. Stamped' /\ StampsDiffer' /\ RecordsArePlausible' /\ RecordsAreOfHolders'
    BY <1>5, <2>1 DEF FilesInv, Stamped, StampsDiffer, RecordsArePlausible, RecordsAreOfHolders
  <2>3. finalized' = {} => finalized = {}
    BY <1>5
  <2>4. HoldersAreRecorded'
    BY <1>5, <2>1, <2>3 DEF FilesInv, HoldersAreRecorded
  <2>5. finalized' \in SUBSET Peers
    BY <1>5 DEF FilesInv
  <2> QED BY <1>5, <2>2, <2>4, <2>5 DEF FilesInv
<1> QED BY <1>2, <1>3, <1>4, <1>5 DEF Next, Finalize, vars

-----------------------------------------------------------------------------
(* After each file the accumulator of m says what the files so far have    *)
(* recorded.                                                               *)
ReadUpto(m, n) == {e \in UNION {ToSet(file[k]) : k \in 1..n} : e.msg = m}

LEMMA RowsSay ==
  ASSUME FilesInv, NEW m \in Messages
  PROVE  Says(Accumulated(m), Recorded(m))
<1>1. N \in Nat /\ Recorded(m) = ReadUpto(m, N) /\ Plausible(Recorded(m))
  BY AggregateAssumption DEF FilesInv, RecordsArePlausible, Recorded, ReadUpto, Peers
<1>2. \A n \in Peers : file[n] \in Seq(Event)
  BY DEF FilesInv
<1>3. PICK a : ReadsFiles(a, m) /\ Accumulated(m) = a[N]
  BY <1>2, AccumulatedSteps
<1> DEFINE B == {n \in 0..N : Says(a[n], ReadUpto(m, n))}
<1>4. 0 \in B
  <2>1. ReadUpto(m, 0) = {}
    BY DEF ReadUpto
  <2>2. a[0] = Empty
    BY <1>3 DEF ReadsFiles
  <2> QED BY <1>1, <2>1, <2>2, EmptySays
<1>5. ASSUME NEW n \in 1..N, n - 1 \in B PROVE n \in B
  <2> DEFINE lines == file[n]
             R == ReadUpto(m, n - 1)
             S == ReadUpto(m, n)
  <2>1. n \in Peers /\ lines \in Seq(Event) /\ Says(a[n - 1], R)
    BY <1>2, <1>5 DEF Peers
  <2>2. a[n] = ReadEvents(m, a[n - 1], lines)
    BY <1>3 DEF ReadsFiles
  <2>3. /\ Len(lines) \in Nat /\ DOMAIN lines = 1..Len(lines)
        /\ ToSet(lines) = {lines[j] : j \in 1..Len(lines)}
    BY <2>1 DEF ToSet
  <2>4. \A i, j \in 1..Len(lines) : lines[i] = lines[j] => i = j
    BY <2>1 DEF FilesInv, StampsDiffer
  <2>5. ASSUME NEW i \in 1..Len(lines) PROVE lines[i] \notin R
    <3> SUFFICES ASSUME lines[i] \in R PROVE FALSE
      OBVIOUS
    <3>1. PICK k \in 1..(n - 1) : lines[i] \in ToSet(file[k])
      BY DEF ReadUpto
    <3>2. k \in Peers /\ k # n
      BY <1>1 DEF Peers
    <3>3. PICK j \in 1..Len(file[k]) : file[k][j] = lines[i]
      <4>1. DOMAIN file[k] = 1..Len(file[k])
        BY <1>2, <3>2
      <4> QED BY <3>1, <4>1 DEF ToSet
    <3>4. file[k][j].at = file[n][i].at
      BY <3>3
    <3> QED BY <2>1, <3>2, <3>4 DEF FilesInv, StampsDiffer
  <2>6. S = R \cup {e \in {lines[j] : j \in 1..Len(lines)} : e.msg = m}
    <3>1. 1..n = (1..(n - 1)) \cup {n}
      BY <1>1
    <3>2. UNION {ToSet(file[k]) : k \in 1..n} =
            (UNION {ToSet(file[k]) : k \in 1..(n - 1)}) \cup ToSet(lines)
      BY <3>1
    <3> QED BY <2>3, <3>2 DEF ReadUpto
  <2>7. Plausible(S)
    <3>1. 1..n \subseteq 1..N
      BY <1>1
    <3>2. S \subseteq Recorded(m)
      BY <1>1, <3>1 DEF ReadUpto
    <3> QED BY <1>1, <3>2 DEF Plausible
  <2> HIDE DEF lines, R, S
  <2>8. Says(ReadEvents(m, a[n - 1], lines), S)
    BY <2>1, <2>4, <2>5, <2>6, <2>7, FileIsRead
  <2> QED BY <1>1, <2>2, <2>8 DEF S
<1>6. N \in B
  <2> HIDE DEF B
  <2>1. \A n \in 0..N : n \in B
    BY <1>1, <1>4, <1>5, StepByStep
  <2> QED BY <1>1, <2>1
<1> QED BY <1>1, <1>3, <1>6

LEMMA FilesCorrect == Spec => []FilesInv
BY FilesInit, FilesStep, PTL DEF Spec

(* The row of a message counts its recorded events, whatever the order of  *)
(* the files, with any number of peers and lines.                          *)
THEOREM SummaryIsExact == Spec => []RowsAreExact
<1>1. FilesInv => RowsAreExact
  <2> SUFFICES ASSUME FilesInv, NEW m \in Rows
               PROVE  LET acc == Accumulated(m)
                      IN  /\ acc.reached = {e.node : e \in Arrivals(m)}
                          /\ acc.duplicates = Cardinality({e \in Recorded(m) : e.duplicate})
                          /\ \A t \in Types \ {"message_created", "message_received"} :
                               acc.counts[t] = Cardinality({e \in Recorded(m) : e.type = t})
    BY DEF RowsAreExact
  <2>1. Says(Accumulated(m), Recorded(m)) /\ Arrivals(m) = Arrived(Recorded(m))
    BY RowsSay DEF Rows, Arrivals, Arrived
  <2> QED BY <2>1 DEF Says
<1> QED BY <1>1, FilesCorrect, PTL

(* The reached peers of a row have the message, and as long as no peer was *)
(* finalized they are all that have it.                                    *)
THEOREM ReachedIsRight == Spec => []ReachedAreHolders
<1>1. FilesInv => ReachedAreHolders
  <2> SUFFICES ASSUME FilesInv, NEW m \in Messages
               PROVE  /\ Accumulated(m).reached \subseteq holders[m]
                      /\ finalized = {} => Accumulated(m).reached = holders[m]
    BY DEF ReachedAreHolders
  <2>1. Accumulated(m).reached = {e.node : e \in Arrived(Recorded(m))}
    BY RowsSay DEF Says
  <2>2. \A e \in Arrived(Recorded(m)) : e.node \in holders[m]
    BY DEF FilesInv, RecordsAreOfHolders, Arrived
  <2>3. finalized = {} => \A n \in holders[m] : \E e \in Arrived(Recorded(m)) : e.node = n
    BY DEF FilesInv, HoldersAreRecorded
  <2> QED BY <2>1, <2>2, <2>3
<1> QED BY <1>1, FilesCorrect, PTL

(* No reported delay is too long, although it may be too short.            *)
THEOREM DelayIsAtMost == Spec => []NeverOverstated
<1>1. FilesInv => NeverOverstated
  <2> SUFFICES ASSUME FilesInv, NEW m \in Rows
               PROVE  /\ CompletionDelay(m) >= 0
                      /\ (\A e \in Recorded(m) : e.type # "message_created") =>
                           CompletionDelay(m) = 0
                      /\ \A e \in Recorded(m) : e.type = "message_created" =>
                           CompletionDelay(m) <= Max({a.at : a \in Arrivals(m)}) - e.at
    BY DEF NeverOverstated
  <2> DEFINE acc == Accumulated(m)
             times == {a.at : a \in Arrivals(m)}
             delay == CompletionDelay(m)
  <2>1. /\ Says(acc, Recorded(m)) /\ Plausible(Recorded(m))
        /\ Arrivals(m) = Arrived(Recorded(m))
    BY RowsSay DEF Rows, Arrivals, Arrived, FilesInv, RecordsArePlausible
  <2>2. acc.createdAt \in Nat /\ acc.lastUniqueAt \in Nat
    BY <2>1 DEF Says, Acc
  <2>3. \A e \in Recorded(m) : e.at \in 1..MaxClock
    BY <2>1 DEF Plausible, Event
  <2>4. delay = IF acc.createdAt > 0 /\ acc.lastUniqueAt >= acc.createdAt
                THEN acc.lastUniqueAt - acc.createdAt ELSE 0
    BY DEF CompletionDelay
  <2>5. ASSUME \A e \in Recorded(m) : e.type # "message_created" PROVE delay = 0
    <3>1. acc.createdAt = 0
      BY <2>1, <2>5 DEF Says
    <3> HIDE DEF delay, acc
    <3> QED BY <2>4, <3>1
  <2>6. ASSUME NEW e \in Recorded(m), e.type = "message_created"
        PROVE  delay <= Max(times) - e.at
    <3>1. acc.createdAt = e.at /\ e.at \in 1..MaxClock /\ e \in Arrivals(m)
      <4>1. ~e.duplicate
        BY <2>1, <2>6 DEF Plausible
      <4> QED BY <2>1, <2>3, <2>6, <4>1 DEF Says, Arrived
    <3>2. times \in SUBSET (0..MaxClock) /\ e.at \in times
      <4>1. \A a \in Arrivals(m) : a.at \in 0..MaxClock
        BY <2>1, <2>3 DEF Arrived
      <4> QED BY <3>1, <4>1
    <3>3. acc.lastUniqueAt = 0 \/ acc.lastUniqueAt \in times
      BY <2>1 DEF Says
    <3> HIDE DEF times, acc, delay
    <3>4. Max(times) \in times /\ \A x \in times : x <= Max(times)
      BY <3>2, AggregateAssumption, MaxIsGreatest
    <3>5. Max(times) \in Nat /\ e.at <= Max(times)
      <4>1. Max(times) \in 0..MaxClock
        BY <3>2, <3>4
      <4>2. e.at <= Max(times)
        BY <3>2, <3>4
      <4>3. MaxClock \in Nat
        BY AggregateAssumption
      <4> DEFINE y == Max(times)
      <4>4. y \in 0..MaxClock
        BY <4>1
      <4> HIDE DEF y
      <4>5. y \in Nat
        BY <4>3, <4>4
      <4> QED BY <4>2, <4>5 DEF y
    <3>6. acc.lastUniqueAt <= Max(times)
      BY <3>3, <3>4, <3>5
    <3> DEFINE x == acc.lastUniqueAt
               y == Max(times)
               z == e.at
    <3>7. x \in Nat /\ y \in Nat /\ z \in Nat /\ x <= y /\ z <= y
      BY <2>2, <3>1, <3>5, <3>6
    <3>8. delay = IF z > 0 /\ x >= z THEN x - z ELSE 0
      BY <2>4, <3>1
    <3> HIDE DEF x, y, z
    <3>9. delay <= y - z
      BY <3>7, <3>8
    <3> QED BY <3>9 DEF y, z
  <2>7. delay >= 0
    <3> HIDE DEF acc, delay
    <3> QED BY <2>2, <2>4
  <2> QED BY <2>5, <2>6, <2>7
<1> QED BY <1>1, FilesCorrect, PTL

(* The files hold what a run records: each line is an event of its peer,   *)
(* and no more than MaxClock of them were stamped.                         *)
THEOREM TypeCorrect == Spec => []TypeOK
<1>1. FilesInv => TypeOK
  <2> SUFFICES ASSUME FilesInv, NEW n \in Peers
               PROVE  file[n] \in Seq([type : Types, msg : Messages, node : {n},
                                       at : 1..MaxClock, duplicate : BOOLEAN])
    BY DEF FilesInv, TypeOK
  <2> DEFINE s == file[n]
             T == [type : Types, msg : Messages, node : {n},
                   at : 1..MaxClock, duplicate : BOOLEAN]
  <2>1. s \in Seq(Event) /\ \A i \in 1..Len(s) : s[i].node = n
    BY DEF FilesInv, Stamped
  <2>2. \A e \in Event : e.node = n => e \in T
    BY DEF Event
  <2> HIDE DEF s, T
  <2>3. Len(s) \in Nat /\ s \in [1..Len(s) -> T]
    BY <2>1, <2>2
  <2>4. s \in Seq(T)
    BY <2>3
  <2> QED BY <2>4 DEF s, T
<1> QED BY <1>1, FilesCorrect, PTL

=============================================================================
