---- MODULE MCTopology ----
(* Declarations for Topology: each model, and what each of them refuses.   *)
EXTENDS Topology

None == -1

Flat(n) == [v \in 0..(n - 1) |-> 1]
(* Two speeds: the odd nodes are fast.                                     *)
Odd(n) == [v \in 0..(n - 1) |-> IF v % 2 = 1 THEN 0 ELSE 1]
AllPairs(n) == {{x[1], x[2]} : x \in {y \in (0..(n - 1)) \X (0..(n - 1)) : y[1] < y[2]}}

Base(model, n) ==
  [model |-> model, n |-> n, k |-> 0, m |-> 0, rows |-> 0, columns |-> 0,
   p |-> None, averageDegree |-> None, alpha |-> None, beta |-> None,
   ensureConnected |-> FALSE, baselines |-> {Flat(n)},
   linkDelays |-> {[e \in AllPairs(n) |-> 1]}, matrix |-> {}]

ERs ==
  {[Base("er", 4) EXCEPT !.p = x, !.ensureConnected = TRUE] : x \in {0, 50, 100, 101}}
    \cup {[Base("er", 3) EXCEPT !.averageDegree = x] : x \in {0, 150, 200, 201}}
    \cup {Base("er", 3), [Base("er", 3) EXCEPT !.p = 50, !.averageDegree = 100]}

BAs ==
  {[Base("ba", 5) EXCEPT !.m = x] : x \in {0, 1, 2, 4, 5}}

Opportunistics ==
  {[Base("ba-opportunistic", 4) EXCEPT !.m = x,
      !.baselines = {Odd(4), Flat(4)},
      !.linkDelays = [AllPairs(4) -> {1, 3}]] : x \in {0, 1, 2, 4}}
    \cup {[Base("ba-opportunistic", 4) EXCEPT !.m = 1, !.linkDelays = {}]}

DRSs ==
  {[Base("drs", 9) EXCEPT !.k = x, !.alpha = 50, !.beta = 100,
      !.baselines = {Odd(9)}] : x \in {4}}
    \cup {[Base("drs", 8) EXCEPT !.k = 4, !.alpha = 50, !.beta = 100, !.baselines = {}]}
    \cup {[Base("drs", 8) EXCEPT !.k = x, !.alpha = 50, !.beta = 100,
             !.baselines = {Odd(8), Flat(8)}] : x \in {2, 4, 6}}
    \cup {[Base("drs", 8) EXCEPT !.k = 4, !.alpha = 50, !.beta = x] : x \in {None, 0, 50, 200}}
    \cup {[Base("drs", 8) EXCEPT !.k = 4, !.alpha = x, !.beta = 100] : x \in {None, 0, 70}}
    \cup {[Base("drs", n) EXCEPT !.k = 3, !.alpha = 50, !.beta = 100] : n \in {6, 8}}

WSs ==
  {[Base("ws", 6) EXCEPT !.k = x, !.beta = y] : x \in {2, 4}, y \in {0, 50, 100}}
    \cup {[Base("ws", 5) EXCEPT !.k = x, !.beta = y, !.ensureConnected = TRUE] :
             x \in {2, 3, 6}, y \in {None, 50, 150}}

Regulars ==
  {Base(model, n) : model \in {"ring", "path", "complete"}, n \in {0, 1, 2, 5}}
    \cup {[Base("grid", 6) EXCEPT !.rows = x, !.columns = y] : x \in {0, 2, 4}, y \in {0, 3, 4}}

(* Symmetric matrices, one that is not, and one with a node on itself.     *)
Matrices ==
  {[Base("matrix", 3) EXCEPT !.matrix = x] :
     x \in SUBSET {<<0, 1>>, <<1, 0>>, <<1, 2>>, <<2, 1>>, <<2, 2>>}}

SmallDomains == ERs \cup BAs \cup Opportunistics \cup DRSs \cup WSs \cup Regulars \cup Matrices
====
