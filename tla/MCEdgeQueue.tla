---- MODULE MCEdgeQueue ----
(* Two goroutines enqueue three data and two control frames on one edge.   *)
EXTENDS EdgeQueue

CONSTANTS p1, p2, d1, d2, d3, c1, c2

MCEnqueuers == {p1, p2}
MCFrames == {d1, d2, d3, c1, c2}
MCControlFrames == {c1, c2}
====
