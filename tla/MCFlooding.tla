---- MODULE MCFlooding ----
(* Small topologies and origins for Flooding.                              *)
EXTENDS Flooding

CONSTANTS n1, n2, n3, n4, m1, m2

Triangle == [n \in {n1, n2, n3} |-> {n1, n2, n3} \ {n}]
(* A triangle with n4 hanging off n3.                                      *)
Paw == [n \in {n1, n2, n3, n4} |->
  CASE n = n4 -> {n3}
    [] n = n3 -> {n1, n2, n4}
    [] OTHER -> {n1, n2, n3} \ {n}]

OriginApart == [m \in Messages |-> IF m = m1 THEN n1 ELSE n3]
OriginN1 == [m \in Messages |-> n1]
====
