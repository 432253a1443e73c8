---- MODULE MCSpawnSlots ----
(* A root with three children.                                             *)
EXTENDS SpawnSlots, TLC
CONSTANTS root, left, right, middle
MCAgents == {root, left, right, middle}
MCParent == left :> root @@ right :> root @@ middle :> root
====
