---- MODULE MCRunLifecycle ----
(* peerkit run, and collect or stop beside it and after it; three peers in *)
(* batches of two.                                                         *)
EXTENDS RunLifecycle

CONSTANTS later
Later == {later}
====
