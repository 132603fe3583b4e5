----------------------------- MODULE MCAggregate -----------------------------
EXTENDS Aggregate

CONSTANTS m1, m2
=============================================================================
