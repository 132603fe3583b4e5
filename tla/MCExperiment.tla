---- MODULE MCExperiment ----
(* Two peers and their edge, one fixed and one random traffic entry, with  *)
(* one slot for the calls (so that one waits) and with two.                *)
EXTENDS Experiment

Pair == 0..1
PairEdges == {{0, 1}}
RandomSource == -1
FixedAndRandom == <<[source |-> 0, count |-> 2], [source |-> RandomSource, count |-> 2]>>
====
