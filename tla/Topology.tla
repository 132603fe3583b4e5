------------------------------- MODULE Topology -------------------------------
(***************************************************************************)
(* How a compact domain declaration becomes the explicit topology of a     *)
(* scenario (internal/config/domain.go, topology.go): the generators, the  *)
(* repair of an unconnected graph, and the adjacency matrix as the other   *)
(* way to declare edges.                                                   *)
(*                                                                         *)
(* A step is one turn of a generator's outer loop.  Whatever the code      *)
(* draws from its seeded generator is an open choice.  The edges are       *)
(* a set of pairs, the adjacency maps of the code.  Fractions of the       *)
(* declaration are in hundredths; node and edge delays are any of the      *)
(* samples the domain lists, none when they cannot be resolved.            *)
(*                                                                         *)
(* A definition whose name ends in Bug is no part of Spec: it is the wrong *)
(* variant of the definition after it that some property must catch.       *)
(***************************************************************************)
EXTENDS Integers, Sequences, FiniteSets, SequencesExt

CONSTANTS
  Domains,   (* the declarations to expand; see DomainType                 *)
  Unset      (* a field the declaration omits: a negative number           *)

(* Pairs of nodes, and what makes a record a declaration.                  *)
NodesOf(d) == 0..(d.n - 1)
PairsOf(d) == {{x[1], x[2]} : x \in {y \in NodesOf(d) \X NodesOf(d) : y[1] < y[2]}}

Models == {"er", "ba", "ba-opportunistic", "drs", "ws", "ring", "path",
           "complete", "grid", "matrix"}

DomainType(d) ==
  /\ d.model \in Models
  /\ d.n \in Nat
  /\ {d.k, d.m, d.rows, d.columns} \subseteq Int
  /\ {d.p, d.averageDegree, d.alpha, d.beta} \subseteq Int
  /\ d.ensureConnected \in BOOLEAN
  /\ d.model = "matrix" => ~d.ensureConnected
  /\ \A b \in d.baselines : DOMAIN b = NodesOf(d) /\ \A v \in DOMAIN b : b[v] \in Nat
  /\ \A l \in d.linkDelays : DOMAIN l = PairsOf(d) /\ \A e \in DOMAIN l : l[e] \in Nat
  /\ d.matrix \subseteq NodesOf(d) \X NodesOf(d)

ASSUME TopologyAssumption ==
  /\ Unset \in Int /\ Unset < 0
  /\ \A d \in Domains : DomainType(d)

VARIABLES
  domain,      (* the declaration                                          *)
  phase,       (* where the expansion stands                               *)
  baseline,    (* node -> processing delay, once resolved                  *)
  linkDelay,   (* pair -> the cached sample of its delay                   *)
  edges,       (* the edges so far                                         *)
  generated,   (* history: the edges when the generator returned           *)
  seeds,       (* BA-opportunistic: the initial clique                     *)
  todo,        (* turns of the current loop that are still to come         *)
  rings,       (* DRS: ring -> its nodes in index order                    *)
  candidates,  (* DRS: ring -> <<distance, position>> of chords left       *)
  added        (* DRS: ring -> edges the fill has added                    *)

drsVars == <<rings, candidates, added>>
vars == <<domain, phase, baseline, linkDelay, edges, generated, seeds, todo,
          rings, candidates, added>>

-----------------------------------------------------------------------------
Rings == {"inner", "outer"}
Nodes == NodesOf(domain)

(* The next turn of a loop over indices, or over pairs of them.            *)
FirstOf(S) == CHOOSE x \in S : \A y \in S : x <= y
FirstPair(S) ==
  CHOOSE x \in S : \A y \in S : x[1] < y[1] \/ (x[1] = y[1] /\ x[2] <= y[2])

Neighbors(v) == {u \in Nodes : {u, v} \in edges /\ u # v}
Choose2(n) == (n * (n - 1)) \div 2
Subsets(S, k) == {T \in SUBSET S : Cardinality(T) = k}
Clique(S) == {e \in SUBSET S : Cardinality(e) = 2}

(* math.Ceil(alpha * float64(n)); alpha defaults to 0.25.                  *)
Alpha(d) == IF d.alpha = Unset THEN 25 ELSE d.alpha
CoreCount(d) == (Alpha(d) * d.n + 99) \div 100
TargetEdges(d) == (d.n * d.k) \div 2
Beta(d) == d.beta \div 100

(* The fastest CoreCount nodes of the stable ranking, ties by index.       *)
Core(b) ==
  {v \in Nodes : Cardinality({u \in Nodes :
      b[u] < b[v] \/ (b[u] = b[v] /\ u < v)}) < CoreCount(domain)}

(* The members of a set of nodes in index order.                           *)
Sorted(S) ==
  CHOOSE s \in [1..Cardinality(S) -> S] : \A i, j \in DOMAIN s : i < j => s[i] < s[j]

Chord(ring, distance, i) == {ring[i], ring[1 + ((i + distance - 1) % Len(ring))]}
Backbone(ring) == {Chord(ring, 1, i) : i \in 1..Len(ring)}

(* Neighbors of an inner node inside the core, those on the ring apart.    *)
InnerShortcuts(v) ==
  {u \in Neighbors(v) \cap ToSet(rings.inner) : {u, v} \notin Backbone(rings.inner)}

(* ringCandidates: the chords the ring lacks, each pair under its first    *)
(* distance and position.                                                  *)
RingCandidates(ring, present) ==
  {x \in (2..(Len(ring) \div 2)) \X (1..Len(ring)) :
     /\ 2 * x[1] = Len(ring) => x[2] <= x[1]
     /\ Chord(ring, x[1], x[2]) \notin present}

(* generatedComponents: the node sets no edge leaves, and no smaller ones. *)
Closed(S, E) == \A e \in E : e \cap S # {} => e \subseteq S
Components(E) ==
  LET closed == {S \in (SUBSET Nodes) \ {{}} : Closed(S, E)}
  IN  {S \in closed : \A T \in closed : T \subseteq S => T = S}

-----------------------------------------------------------------------------
(* What the code refuses before it generates.                              *)
ERRejected(d) ==
  \/ d.p # Unset /\ d.averageDegree # Unset
  \/ d.averageDegree # Unset /\ d.averageDegree \notin 0..(100 * (d.n - 1))
  \/ d.p = Unset /\ d.averageDegree = Unset
  \/ d.p # Unset /\ d.p \notin 0..100

BARejected(d) == d.m <= 0 \/ d.m >= d.n

LatticeRejected(d) == d.k <= 0 \/ d.k >= d.n \/ d.k % 2 # 0

DRSRejected(d) ==
  \/ d.n < 7
  \/ LatticeRejected(d)
  \/ Alpha(d) \notin 1..99
  \/ d.beta = Unset \/ d.beta <= 0 \/ d.beta % 100 # 0
  \/ CoreCount(d) < 4 \/ d.n - CoreCount(d) < 3
  \/ d.beta \div 100 > CoreCount(d) - 3
  \/ d.baselines = {}

(* A side the declaration omits follows from the other; a remainder, or no *)
(* side at all, leaves a product that is not the number of nodes.          *)
Rows(d) == IF d.rows > 0 THEN d.rows
           ELSE IF d.columns > 0 THEN d.n \div d.columns ELSE 0
Columns(d) == IF d.columns > 0 THEN d.columns
              ELSE IF d.rows > 0 THEN d.n \div d.rows ELSE 0

GridRejected(d) == Rows(d) * Columns(d) # d.n

(* A row, a column and a bit at a time, NormalizeTopology.                 *)
MatrixRejected(d) ==
  \/ \E i \in NodesOf(d) : <<i, i>> \in d.matrix
  \/ \E x \in d.matrix : <<x[2], x[1]>> \notin d.matrix

Rejected(d) ==
  \/ d.n <= 0
  \/ CASE d.model = "er" -> ERRejected(d)
       [] d.model = "ba" -> BARejected(d)
       [] d.model = "ba-opportunistic" ->
            BARejected(d) \/ d.baselines = {} \/ d.linkDelays = {}
       [] d.model = "drs" -> DRSRejected(d)
       [] d.model = "ws" -> \/ LatticeRejected(d)
                            \/ d.beta = Unset \/ d.beta \notin 0..100
       [] d.model = "ring" -> d.n < 3
       [] d.model = "grid" -> GridRejected(d)
       [] d.model = "matrix" -> MatrixRejected(d)
       [] OTHER -> FALSE

-----------------------------------------------------------------------------
Init ==
  /\ domain \in Domains
  /\ phase = "declared"
  /\ baseline = <<>> /\ linkDelay = <<>>
  /\ edges = {} /\ generated = {}
  /\ seeds = {} /\ todo = {}
  /\ rings = [r \in Rings |-> <<>>]
  /\ candidates = [r \in Rings |-> {}]
  /\ added = [r \in Rings |-> 0]

Reject ==
  /\ phase = "declared" /\ Rejected(domain)
  /\ phase' = "rejected"
  /\ UNCHANGED <<domain, baseline, linkDelay, edges, generated, seeds, todo, drsVars>>

(* The generator returns E.                                                *)
Return(E) ==
  /\ edges' = E /\ generated' = E
  /\ phase' = "generated"

Accept(model) == phase = "declared" /\ ~Rejected(domain) /\ domain.model = model

(* resolveNodeDelayAssignments.                                            *)
ResolveBaselines == baseline' \in domain.baselines

(* pairDelay: the samples it would cache.                                  *)
DrawLinkDelays == linkDelay' \in domain.linkDelays

NoDelays == UNCHANGED <<baseline, linkDelay>>

(* generateER: every pair with probability p.                              *)
ERGraphs(d) ==
  LET full  == IF d.p # Unset THEN 100 ELSE 100 * (d.n - 1)
      asked == IF d.p # Unset THEN d.p ELSE d.averageDegree
  IN  CASE asked = 0 \/ d.n = 1 -> {{}}
        [] asked = full -> {PairsOf(d)}
        [] OTHER -> SUBSET PairsOf(d)

GenerateER ==
  /\ Accept("er")
  /\ \E E \in ERGraphs(domain) : Return(E)
  /\ NoDelays /\ UNCHANGED <<domain, seeds, todo, drsVars>>

RingEdges(n) == {{i, (i + 1) % n} : i \in 0..(n - 1)}
PathEdges(n) == {{i, i + 1} : i \in 0..(n - 2)}

(* generateGrid: a node is joined to its right and its lower neighbor.     *)
GridEdges(n, columns) ==
  {{i, i + 1} : i \in {j \in 0..(n - 2) : j % columns < columns - 1}}
    \cup {{i, i + columns} : i \in 0..(n - 1 - columns)}

(* The generators without a loop worth a step of its own.                  *)
GenerateRegular ==
  /\ \/ Accept("ring") /\ Return(RingEdges(domain.n))
     \/ Accept("path") /\ Return(PathEdges(domain.n))
     \/ Accept("complete") /\ Return(PairsOf(domain))
     \/ Accept("grid") /\ Return(GridEdges(domain.n, Columns(domain)))
  /\ NoDelays /\ UNCHANGED <<domain, seeds, todo, drsVars>>

(* NormalizeTopology: an edge for every pair of bits of a declared matrix. *)
GenerateMatrix ==
  /\ Accept("matrix")
  /\ Return({{x[1], x[2]} : x \in domain.matrix})
  /\ NoDelays /\ UNCHANGED <<domain, seeds, todo, drsVars>>

-----------------------------------------------------------------------------
(* Barabasi-Albert: a clique, then one node at a time.                     *)
StartBA ==
  /\ Accept("ba")
  /\ seeds' = 0..domain.m
  /\ edges' = Clique(seeds')
  /\ todo' = Nodes \ seeds'
  /\ phase' = "attach"
  /\ NoDelays /\ UNCHANGED <<domain, generated, drsVars>>

StartOpportunistic ==
  /\ Accept("ba-opportunistic")
  /\ ResolveBaselines /\ DrawLinkDelays
  /\ phase' = "clique"
  /\ UNCHANGED <<domain, edges, generated, seeds, todo, drsVars>>

(* Processing baseline plus mean link delay to the seeds, times their      *)
(* number; for the first seed the baseline alone.                          *)
SeedScore(v) ==
  IF seeds = {} THEN baseline[v]
  ELSE Cardinality(seeds) * baseline[v]
         + FoldSet(LAMBDA u, total : total + linkDelay[{u, v}], 0, seeds)

BestSeed ==
  LET rest == Nodes \ seeds
      best == {v \in rest : \A u \in rest : SeedScore(v) <= SeedScore(u)}
  IN  FirstOf(best)

(* selectOpportunisticInitialClique, one seed, and the clique at the end.  *)
PickSeed ==
  /\ phase = "clique"
  /\ seeds' = seeds \cup {BestSeed}
  /\ IF Cardinality(seeds') > domain.m
     THEN /\ edges' = Clique(seeds')
          /\ todo' = Nodes \ seeds'
          /\ phase' = "attach"
     ELSE UNCHANGED <<edges, todo, phase>>
  /\ UNCHANGED <<domain, baseline, linkDelay, generated, drsVars>>

(* Bug: a chosen target is not excluded from the next draw.                *)
TargetsBug(existing, m) == {S \in SUBSET existing : Cardinality(S) \in 1..m}

(* m distinct draws: every existing node has a positive weight.            *)
Targets(existing, m) == Subsets(existing, m)

(* The next node in index order joins the nodes that are in the graph.     *)
Attach ==
  /\ phase = "attach" /\ todo # {}
  /\ LET node == FirstOf(todo) IN
     /\ \E S \in Targets(Nodes \ todo, domain.m) :
          edges' = edges \cup {{node, target} : target \in S}
     /\ todo' = todo \ {node}
  /\ UNCHANGED <<domain, phase, baseline, linkDelay, generated, seeds, drsVars>>

Attached ==
  /\ phase = "attach" /\ todo = {}
  /\ Return(edges)
  /\ UNCHANGED <<domain, baseline, linkDelay, seeds, todo, drsVars>>

-----------------------------------------------------------------------------
(* Double-ring small world.  The cycles of both rings.                     *)
StartDRS ==
  /\ Accept("drs")
  /\ ResolveBaselines
  /\ LET core == Core(baseline') IN
     /\ rings' = [inner |-> Sorted(core), outer |-> Sorted(Nodes \ core)]
     /\ edges' = Backbone(rings'.inner) \cup Backbone(rings'.outer)
     /\ todo' = Nodes \ core
  /\ phase' = "access"
  /\ UNCHANGED <<domain, linkDelay, generated, seeds, candidates, added>>

(* The next outer node gets its beta links into the core.                  *)
AddAccess ==
  /\ phase = "access"
  /\ LET node == FirstOf(todo) IN
     /\ \E S \in Subsets(ToSet(rings.inner), Beta(domain)) :
          edges' = edges \cup {{node, target} : target \in S}
     /\ todo' = IF todo = {node} THEN ToSet(rings.inner) ELSE todo \ {node}
     /\ phase' = IF todo = {node} THEN "shortcuts" ELSE phase
  /\ UNCHANGED <<domain, baseline, linkDelay, generated, seeds, drsVars>>

(* Bug: shortcuts other core nodes have created are not counted.           *)
NeedBug(v) == Beta(domain)

(* Core links the node still lacks: those it was given count.              *)
Need(v) == Beta(domain) - Cardinality(InnerShortcuts(v))

(* Core nodes the node has no link with.                                   *)
ShortcutTargets(v) == ToSet(rings.inner) \ ({v} \cup Neighbors(v))

(* The core nodes in a random order, each up to beta shortcuts.            *)
AddShortcuts ==
  /\ phase = "shortcuts" /\ todo # {}
  /\ \E node \in todo :
       IF Need(node) > Cardinality(ShortcutTargets(node))
       THEN phase' = "noTargets" /\ UNCHANGED <<edges, todo>>
       ELSE /\ IF Need(node) <= 0 THEN edges' = edges
               ELSE \E S \in Subsets(ShortcutTargets(node), Need(node)) :
                      edges' = edges \cup {{node, target} : target \in S}
            /\ todo' = todo \ {node}
            /\ UNCHANGED phase
  /\ UNCHANGED <<domain, baseline, linkDelay, generated, seeds, drsVars>>

(* More mandatory edges than k allows, or the chords left for the fill.    *)
PlanFill ==
  /\ phase = "shortcuts" /\ todo = {}
  /\ IF Cardinality(edges) > TargetEdges(domain)
     THEN phase' = "overBudget" /\ UNCHANGED candidates
     ELSE /\ candidates' = [r \in Rings |-> RingCandidates(rings[r], edges)]
          /\ phase' = "fill"
  /\ UNCHANGED <<domain, baseline, linkDelay, edges, generated, seeds, todo, rings, added>>

Available(r) == candidates[r] # {}

(* Bug: one ring is filled before the other.                               *)
NextRingBug == IF Available("outer") THEN "outer" ELSE "inner"

(* The ring whose turn it is: the one with fewer added edges per node.     *)
NextRing ==
  IF /\ Available("inner")
     /\ Available("outer") =>
          added.inner * Len(rings.outer) <= added.outer * Len(rings.inner)
  THEN "inner" ELSE "outer"

(* The ring's next chord, shortest first, while k leaves room.             *)
Fill ==
  /\ phase = "fill" /\ Cardinality(edges) < TargetEdges(domain)
  /\ Available("inner") \/ Available("outer")
  /\ LET x     == FirstPair(candidates[NextRing])
         chord == Chord(rings[NextRing], x[1], x[2])
     IN  /\ candidates' = [candidates EXCEPT ![NextRing] = @ \ {x}]
         /\ IF chord \in edges THEN UNCHANGED <<edges, added>>
            ELSE /\ edges' = edges \cup {chord}
                 /\ added' = [added EXCEPT ![NextRing] = @ + 1]
  /\ UNCHANGED <<domain, phase, baseline, linkDelay, generated, seeds, todo, rings>>

(* The budget is spent, or the rings are complete before it is.            *)
Filled ==
  /\ phase = "fill"
  /\ \/ Cardinality(edges) >= TargetEdges(domain) /\ Return(edges)
     \/ /\ Cardinality(edges) < TargetEdges(domain)
        /\ ~Available("inner") /\ ~Available("outer")
        /\ phase' = "underBudget" /\ UNCHANGED <<edges, generated>>
  /\ UNCHANGED <<domain, baseline, linkDelay, seeds, todo, drsVars>>

-----------------------------------------------------------------------------
(* Watts-Strogatz: the lattice, then one position of it at a time.         *)
StartWS ==
  /\ Accept("ws")
  /\ edges' = {{i, (i + distance) % domain.n} :
                 i \in Nodes, distance \in 1..(domain.k \div 2)}
  /\ todo' = Nodes \X (1..(domain.k \div 2))
  /\ phase' = "rewire"
  /\ NoDelays /\ UNCHANGED <<domain, generated, seeds, drsVars>>

(* Bug: the new target may be a neighbor already.                          *)
RewireTargetsBug(i) == Nodes \ {i}

(* Where an edge of node i may go.                                         *)
RewireTargets(i) == Nodes \ ({i} \cup Neighbors(i))

(* A position is kept or, when its edge is still there and node i is not   *)
(* joined to everyone, the edge is swapped for a random new one.           *)
Rewire ==
  /\ phase = "rewire" /\ todo # {}
  /\ LET x        == FirstPair(todo)
         original == {x[1], (x[1] + x[2]) % domain.n}
         movable  == original \in edges /\ RewireTargets(x[1]) # {}
     IN  /\ todo' = todo \ {x}
         /\ \/ (domain.beta < 100 \/ ~movable) /\ UNCHANGED edges
            \/ /\ domain.beta > 0 /\ movable
               /\ \E target \in RewireTargets(x[1]) :
                    edges' = (edges \ {original}) \cup {{x[1], target}}
  /\ UNCHANGED <<domain, phase, baseline, linkDelay, generated, seeds, drsVars>>

Rewired ==
  /\ phase = "rewire" /\ todo = {}
  /\ Return(edges)
  /\ UNCHANGED <<domain, baseline, linkDelay, seeds, todo, drsVars>>

-----------------------------------------------------------------------------
(* One node of every component, in a random order.                         *)
Chains(parts) ==
  {c \in [1..Cardinality(parts) -> Nodes] :
     \A part \in parts : \E i \in DOMAIN c : c[i] \in part}

(* Bug: the chain is closed at its first node only.                        *)
LinksBug(c) == {{c[1], c[i + 1]} : i \in 1..(Len(c) - 2)}

Links(c) == {{c[i], c[i + 1]} : i \in 1..(Len(c) - 1)}

(* connectGeneratedComponents where asked for, and normalizeGeneratedEdges:*)
(* each pair once, no self-loop.                                           *)
Finish ==
  /\ phase = "generated"
  /\ IF domain.ensureConnected /\ Cardinality(Components(edges)) > 1
     THEN \E c \in Chains(Components(edges)) : edges' = edges \cup Links(c)
     ELSE edges' = {e \in edges : Cardinality(e) = 2}
  /\ phase' = "done"
  /\ UNCHANGED <<domain, baseline, linkDelay, generated, seeds, todo, drsVars>>

Next ==
  \/ Reject \/ GenerateER \/ GenerateRegular \/ GenerateMatrix
  \/ StartBA \/ StartOpportunistic \/ PickSeed \/ Attach \/ Attached
  \/ StartDRS \/ AddAccess \/ AddShortcuts \/ PlanFill \/ Fill \/ Filled
  \/ StartWS \/ Rewire \/ Rewired
  \/ Finish

(* One goroutine expands the domain and waits for nothing.                 *)
Spec == Init /\ [][Next]_vars /\ WF_vars(Next)

-----------------------------------------------------------------------------
TypeOK ==
  /\ domain \in Domains
  /\ phase \in {"declared", "rejected", "attach", "clique", "access", "shortcuts",
                "noTargets", "overBudget", "fill", "underBudget", "rewire",
                "generated", "done"}
  /\ edges \subseteq PairsOf(domain) /\ generated \subseteq PairsOf(domain)
  /\ seeds \subseteq Nodes
  /\ \A r \in Rings : ToSet(rings[r]) \subseteq Nodes
  /\ added \in [Rings -> Nat]

(* The edges a generator owes for its declaration; ER owes none.           *)
Owed(d) ==
  CASE d.model \in {"ba", "ba-opportunistic"} ->
         Choose2(d.m + 1) + d.m * (d.n - d.m - 1)
    [] d.model \in {"drs", "ws"} -> TargetEdges(d)
    [] d.model = "ring" -> d.n
    [] d.model = "path" -> d.n - 1
    [] d.model = "complete" -> Choose2(d.n)
    [] d.model = "grid" -> Rows(d) * (Columns(d) - 1) + (Rows(d) - 1) * Columns(d)
    [] d.model = "matrix" -> Cardinality(d.matrix) \div 2
    [] OTHER -> Cardinality(generated)

(* An expansion that succeeds has exactly the edges of its model (n*k/2    *)
(* for DRS and WS, a clique and m per later node for BA, the lattice of a  *)
(* grid), whatever was drawn, rewired or skipped on the way; the repair of *)
(* an unconnected graph adds one edge less than there are components.      *)
EdgeBudget ==
  /\ phase = "generated" => Cardinality(edges) = Owed(domain)
  /\ phase = "done" /\ domain.ensureConnected =>
       Cardinality(edges) = Cardinality(generated) + Cardinality(Components(generated)) - 1

(* Every node ends with the links its model gives it, although later turns *)
(* remove and add edges at both ends: m for BA, k/2 for WS; in a DRS the   *)
(* two cycles, exactly beta core links of an outer node, and at least beta *)
(* core links of an inner node that are not on its ring.                   *)
EveryNodeAttached ==
  phase = "done" =>
    \A v \in Nodes :
      CASE domain.model \in {"ba", "ba-opportunistic"} ->
             Cardinality(Neighbors(v)) >= domain.m
        [] domain.model = "ws" -> Cardinality(Neighbors(v)) >= domain.k \div 2
        [] domain.model = "drs" ->
             /\ Backbone(rings.inner) \cup Backbone(rings.outer) \subseteq edges
             /\ IF v \in ToSet(rings.inner)
                THEN Cardinality(InnerShortcuts(v)) >= Beta(domain)
                ELSE Cardinality(Neighbors(v) \cap ToSet(rings.inner)) = Beta(domain)
        [] OTHER -> TRUE

(* A message can reach everyone: the graph is connected whenever the model *)
(* is connected by its construction or the declaration asks for it.        *)
ConnectedWhenPromised ==
  phase = "done" /\ (domain.ensureConnected \/ domain.model \notin {"er", "ws", "matrix"}) =>
    \A S \in (SUBSET Nodes) \ {{}, Nodes} : ~Closed(S, edges)

(* While both rings still have chords to give, the fill serves them in     *)
(* proportion to their size, to within one edge.                           *)
FillIsBalanced ==
  (phase = "fill" /\ \A r \in Rings : Available(r)) =>
    LET lead == added.inner * Len(rings.outer) - added.outer * Len(rings.inner)
    IN  -Len(rings.inner) < lead /\ lead <= Len(rings.outer)

(* An accepted DRS never fails for want of core nodes to link: the bound   *)
(* on beta (at most core - 3) leaves every inner node enough of them, in   *)
(* whatever order the shortcuts are drawn.  Only the edge budget fails it, *)
(* and it always ends.                                                     *)
OnlyBudgetFails == <>(phase \in {"done", "rejected", "overBudget", "underBudget"})
=============================================================================
