---- MODULE MCSwarmCoordinator ----
(* Slots and deaths for SwarmCoordinator.                                  *)
EXTENDS SwarmCoordinator

MCSlots == {1, 2}
MCMayDie == {2}
====
