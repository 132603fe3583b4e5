----------------------------- MODULE Propagation -----------------------------
(***************************************************************************)
(* What the propagation experiment is about, with no queues, goroutines,   *)
(* frames or protocols: a message starts at its origin and moves along     *)
(* edges of the topology, from a peer that has it to a neighbor that has   *)
(* not.  Nobody ever loses it and nobody gets it from thin air.            *)
(***************************************************************************)
CONSTANTS Nodes, Neighbors, Messages, Origin

VARIABLE reached  (* node -> the messages that got there                   *)

PInit == reached = [n \in Nodes |-> {}]

(* The origin makes the message.                                           *)
Publish(m) ==
  /\ m \notin reached[Origin[m]]
  /\ reached' = [reached EXCEPT ![Origin[m]] = @ \cup {m}]

(* n hears of m from a neighbor.                                           *)
Spread(n, m) ==
  /\ m \notin reached[n]
  /\ \E k \in Neighbors[n] : m \in reached[k]
  /\ reached' = [reached EXCEPT ![n] = @ \cup {m}]

PNext ==
  \/ \E m \in Messages : Publish(m)
  \/ \E n \in Nodes, m \in Messages : Spread(n, m)

(* What holds however much is lost.                                        *)
PSafeSpec == PInit /\ [][PNext]_reached

(* A neighbor of a reached peer is owed the message.                       *)
SpreadsFairly == \A n \in Nodes, m \in Messages : WF_reached(Spread(n, m))

=============================================================================
