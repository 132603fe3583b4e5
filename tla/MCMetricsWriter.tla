--------------------------- MODULE MCMetricsWriter ---------------------------
EXTENDS MetricsWriter

CONSTANTS p1, p2, c1, c2

MCProducers == {p1, p2}
MCFinalizers == {c1, c2}
=============================================================================
